---- MODULE Spec2Model ----
(***************************************************************************)
(* Content-intelligence and personalization engine of Sprout ("Curator"):  *)
(* topic weight learning, digest assembly, theme detection.                *)
(*                                                                         *)
(* Weights are kept in hundredths (0.1 is 10, 5.0 is 500, 1.0 is 100), so  *)
(* that the adjustments +0.1, +0.2 and -0.1 are the integers 10, 20, -10.  *)
(***************************************************************************)
EXTENDS Integers, Sequences, FiniteSets, TLC

(***************************************************************************)
(* Bounds of the model.                                                    *)
(***************************************************************************)
\* operations (interactions, follows, unfollows) started in one behaviour
MaxOps == 2
\* rows of the content table
NContent == 14
\* runs of the sendDigests job started in one behaviour
MaxRuns == 2
\* UTC dates the clock passes through
MaxDay == 2
\* longest list of search results
MaxListLen == 3
\* largest limit of a search, next to the 10 of the example
MaxLimit == 4
\* longest vector given to cosineSimilarity on its own
MaxVecLen == 2
\* rows of the content table when a topic has more themes than are kept
NCapContent == 31
\* runs of the detectThemes job over the same content in one behaviour
MaxDetectRuns == 2

(***************************************************************************)
(* Read-only tables (users, topics, sources, source_topics, content).      *)
(***************************************************************************)
Users == {"u1", "u2"}
Topics == {"t1", "t2", "t3"}
Sources == 1..7
\* content ids, numbered in the order of published_at descending
Contents == 1..NContent
\* the content the users of the model read, save and dismiss
InteractedContents == {1, 2, 3}
Procs == {"p1", "p2"}
\* calls in flight take the first unused slot
ProcOrder(p) == IF p = "p1" THEN 1 ELSE 2

\* content.source_id: the first seven rows are one of each source, the later
\* ones go round the sources that have a topic
ContentSource(c) ==
  IF c <= 7 THEN c ELSE <<1, 2, 4, 5, 6, 7>>[((c - 8) % 6) + 1]

\* source_topics rows of a source, in the order the query returns them;
\* source 3 has no topic and topic t3 has no source
SourceTopics(s) ==
  CASE s = 1 -> <<"t1", "t2">>
    [] s = 2 -> <<"t1">>
    [] s = 3 -> <<>>
    [] s = 4 -> <<"t2">>
    [] s = 5 -> <<"t1">>
    [] s = 6 -> <<"t2">>
    [] OTHER -> <<"t1">>

\* sources.quality_score is null
NullScore == -1

\* sources.quality_score (0..100, nullable)
QualityScore(s) ==
  CASE s = 1 -> 90
    [] s = 2 -> 80
    [] s = 3 -> 70
    [] s = 4 -> NullScore
    [] s = 5 -> 50
    [] s = 6 -> 60
    [] OTHER -> 80

(***************************************************************************)
(* State                                                                   *)
(***************************************************************************)
VARIABLES
  \* tables
  user_topics,      \* [user -> [topic -> weight or NoRow]]
  user_content,     \* [user -> [content -> status]]
  fresh,            \* content rows with published_at >= now - 24h
  digests,          \* rows of the digests table
  today,            \* the current UTC date
  \* one interaction mutation and its updateTopicWeightsForInteraction call
  pc,               \* [proc -> position in the mutation / weight update]
  call,             \* [proc -> [user, content, interaction]]
  topicIds,         \* [proc -> topic ids of the content's source]
  existingMap,      \* [proc -> [topic -> weight read, or NoRow]]
  upsertRecords,    \* [proc -> [topic -> weight to write, or NoRow]]
  mutationResult,   \* [proc -> "none" | "success" | "error"]
  upsertError,      \* [proc -> the batch upsert returned an error]
  ops,              \* operations started so far
  \* generateUserDigest
  digestResult,     \* what the last generateUserDigest call returned
  \* one run of the sendDigests job
  rpc,              \* [run -> position in the job]
  ridx,             \* [run -> index of the user being processed]
  rcontent,         \* [run -> contentIds of the user being processed]
  generated,        \* [run -> counter]
  skipped,          \* [run -> counter]
  failed,           \* [run -> counter]
  lastOutcome,      \* [run -> what the run logged for the last user]
  runsStarted,      \* runs started so far
  \* the detectThemes job
  embedding,        \* [content -> embedding of a row of the past 7 days, or null]
  themes,           \* rows of the themes table
  dpc,              \* position in the job
  dtopic,           \* index of the topic being processed
  themeCandidates,  \* what detectThemesForTopic returned for that topic
  clustered,        \* the last call of clusterContentBySimilarity: input and result
  cidx,             \* index of the candidate being stored
  totalThemesCreated,
  topicsProcessed,
  topicsWithThemes,
  themesFailed,     \* the job's failed counter
  topicOutcome,     \* [topic -> how the job left the topic]
  storeFailedAt,    \* [topic -> index of the candidate whose storeTheme threw, or 0]
  \* useSetUserTopics
  setPc,            \* "idle", or "insert" between its delete and its insert
  setCall,          \* [user, topicIds] of the call in flight
  \* the personalized-feed scorer
  clock,            \* index of the current instant: what new Date() returns
  feedFirst,        \* an evaluation of the scorer: its inputs and what it returned
  feedSecond,       \* a later evaluation on the inputs of feedFirst
  \* hybrid search
  mergeCall,        \* a call of mergeResults: its arguments and what it returned
  searchResult,     \* a request to the search handler and its response
  \* theme clustering, called on its own
  simCall,          \* a call of cosineSimilarity: its arguments and what it returned
  \* the digest pool and the feed scorer, side by side
  poolItem,         \* an item of the digest pool: its digest score and its feed score
  \* the detectThemes job, run again
  detectRetries,    \* the times the job was run again over the same content
  \* the personalized-feed handler, useToggleTopic, useSetUserTopics
  feedResponse,     \* a request to the personalized-feed handler and its items
  unfollowed,       \* the last unfollow that completed: user, topic, weight deleted, ops
  setOutcome,       \* the last useSetUserTopics call: rows before it, how it ended
  \* the summarizeContent task
  summaries,        \* content ids with a row in summaries
  sumPc,            \* [content -> position of the task's run for it]
  attempts          \* [content -> attempts of the run so far]

\* updateTopicWeightsForInteraction and the mutations (user_topics apart)
wvars == <<user_content, pc, call, topicIds, existingMap, upsertRecords,
           mutationResult, upsertError, ops>>
\* generateUserDigest
svars == <<fresh, digestResult>>
\* the sendDigests job
jvars == <<digests, today, rpc, ridx, rcontent, generated, skipped, failed,
           lastOutcome, runsStarted>>
\* the detectThemes job
tvars == <<embedding, themes, dpc, dtopic, themeCandidates, clustered, cidx,
           totalThemesCreated, topicsProcessed, topicsWithThemes, themesFailed,
           topicOutcome, storeFailedAt>>
\* useSetUserTopics
fvars == <<setPc, setCall>>
\* the personalized-feed scorer
pvars == <<clock, feedFirst, feedSecond>>
\* hybrid search
hvars == <<mergeCall, searchResult>>
\* calls and requests of the remaining components
\* the personalized-feed handler and the topic hooks
uvars == <<feedResponse, unfollowed, setOutcome>>
\* the summarizeContent task
mvars == <<summaries, sumPc, attempts>>
rvars == <<simCall, poolItem, detectRetries, uvars, mvars>>

vars == <<user_topics, wvars, svars, jvars, tvars, fvars, pvars, hvars, rvars>>

(***************************************************************************)
(* Topic Weight Learner                                                    *)
(***************************************************************************)
Interactions == {"read", "save", "dismiss"}

WEIGHT_ADJUSTMENTS(interaction) ==
  CASE interaction = "read" -> 10
    [] interaction = "save" -> 20
    [] OTHER -> -10

MIN_WEIGHT == 10
MAX_WEIGHT == 500
DEFAULT_WEIGHT == 100

\* no row for the key (user_id, topic_id)
NoRow == 0

\* user_topics rows the model starts from: a row one step above the floor, a
\* row one step below the ceiling and a missing row for u1 (the bounds and the
\* default weight are reached from these by one operation), one followed topic
\* for u2
InitRows ==
  {[u \in Users |-> IF u = "u1" THEN r ELSE [t1 |-> DEFAULT_WEIGHT, t2 |-> NoRow, t3 |-> NoRow]] :
     r \in {[t1 |-> 20, t2 |-> NoRow, t3 |-> NoRow],
             [t1 |-> 490, t2 |-> 20, t3 |-> NoRow],
             [t1 |-> NoRow, t2 |-> 490, t3 |-> NoRow]}}

MathMax(a, b) == IF a >= b THEN a ELSE b
MathMin(a, b) == IF a <= b THEN a ELSE b

SeqToSet(s) == {s[i] : i \in 1..Len(s)}

NoCall == [user |-> "u1", content |-> 1, interaction |-> "read"]
NoMap == [t \in Topics |-> NoRow]

StatusOf(interaction) ==
  CASE interaction = "read" -> "read"
    [] interaction = "save" -> "saved"
    [] OTHER -> "dismissed"

\* the weight written for a topic the user already has a row for
\* (NewWeightNoCeiling: the same without Math.min)
NewWeightNoCeiling(currentWeight, adjustment) ==
  MathMax(MIN_WEIGHT, currentWeight + adjustment)

NewWeight(currentWeight, adjustment) ==
  MathMax(MIN_WEIGHT, MathMin(MAX_WEIGHT, currentWeight + adjustment))

\* the for-loop that builds upsertRecords from the weights read
BuildUpsertRecords(ids, existing, adjustment) ==
  [t \in Topics |->
     IF t \notin SeqToSet(ids) THEN NoRow
     ELSE IF existing[t] # NoRow THEN NewWeight(existing[t], adjustment)
     ELSE IF adjustment > 0 THEN DEFAULT_WEIGHT + adjustment
     ELSE NoRow]

WeightsIdle ==
  /\ user_content = [u \in Users |-> [c \in InteractedContents |-> "unread"]]
  /\ pc = [p \in Procs |-> "idle"]
  /\ call = [p \in Procs |-> NoCall]
  /\ topicIds = [p \in Procs |-> <<>>]
  /\ existingMap = [p \in Procs |-> NoMap]
  /\ upsertRecords = [p \in Procs |-> NoMap]
  /\ mutationResult = [p \in Procs |-> "none"]
  /\ upsertError = [p \in Procs |-> FALSE]
  /\ ops = 0

\* useSaveContent / useDismissContent / useMarkAsRead: the user_content upsert,
\* then the fire-and-forget call of updateTopicWeightsForInteraction
Mutate(p, u, c, i, ok) ==
  /\ pc[p] \in {"idle", "done"}
  /\ \A q \in Procs : pc[q] = "idle" => pc[p] = "idle" /\ ProcOrder(p) <= ProcOrder(q)
  /\ ops < MaxOps
  /\ ops' = ops + 1
  /\ IF ok
       THEN /\ user_content' = [user_content EXCEPT ![u][c] = StatusOf(i)]
            /\ mutationResult' = [mutationResult EXCEPT ![p] = "success"]
            /\ call' = [call EXCEPT ![p] = [user |-> u, content |-> c, interaction |-> i]]
            /\ topicIds' = [topicIds EXCEPT ![p] = <<>>]
            /\ existingMap' = [existingMap EXCEPT ![p] = NoMap]
            /\ upsertRecords' = [upsertRecords EXCEPT ![p] = NoMap]
            /\ upsertError' = [upsertError EXCEPT ![p] = FALSE]
            /\ pc' = [pc EXCEPT ![p] = "content"]
       ELSE \* if (error) throw error: the weight update is never called
            /\ mutationResult' = [mutationResult EXCEPT ![p] = "error"]
            /\ UNCHANGED <<user_content, call, topicIds, existingMap, upsertRecords,
                           upsertError, pc>>
  /\ UNCHANGED <<user_topics, svars, jvars, tvars, fvars, pvars, hvars, rvars>>

\* updateTopicWeightsForInteraction(...).catch(...): the call is not awaited
\* and its rejection is caught, so the mutation's result stays what it was
ResultAfterUpdateAwaited(result, updateFailed) ==
  IF updateFailed THEN "error" ELSE result

ResultAfterUpdate(result, updateFailed) == result

\* select source_id from content where id = contentId, then
\* select topic_id from source_topics where source_id = content.source_id;
\* both tables are read-only, so the two reads are one step
FetchSourceTopics(p, found, ok) ==
  /\ pc[p] = "content"
  /\ LET ids == IF found /\ ok
                  THEN SourceTopics(ContentSource(call[p].content)) ELSE <<>>
     IN /\ topicIds' = [topicIds EXCEPT ![p] = ids]
        /\ pc' = [pc EXCEPT ![p] = IF Len(ids) = 0 THEN "done" ELSE "weights"]
  /\ mutationResult' = [mutationResult EXCEPT ![p] = ResultAfterUpdate(@, ~found \/ ~ok)]
  /\ UNCHANGED <<user_topics, user_content, call, existingMap,
                 upsertRecords, upsertError, ops, svars, jvars, tvars, fvars, pvars, hvars, rvars>>

\* select topic_id, weight from user_topics ..., then the loop building the batch
ReadWeights(p, ok) ==
  /\ pc[p] = "weights"
  /\ LET u == call[p].user
         existing == [t \in Topics |->
                        IF ok /\ t \in SeqToSet(topicIds[p])
                          THEN user_topics[u][t] ELSE NoRow]
         records == BuildUpsertRecords(topicIds[p], existing,
                                       WEIGHT_ADJUSTMENTS(call[p].interaction))
     IN /\ existingMap' = [existingMap EXCEPT ![p] = existing]
        /\ upsertRecords' = [upsertRecords EXCEPT ![p] = records]
        /\ pc' = [pc EXCEPT ![p] =
                    IF \E t \in Topics : records[t] # NoRow THEN "upsert" ELSE "done"]
  /\ mutationResult' = [mutationResult EXCEPT ![p] = ResultAfterUpdate(@, ~ok)]
  /\ UNCHANGED <<user_topics, user_content, call, topicIds,
                 upsertError, ops, svars, jvars, tvars, fvars, pvars, hvars, rvars>>

\* the rows of a user after the batch upsert of records
\* (UpsertIgnoreDuplicates: the same with ignoreDuplicates, rows in conflict kept)
UpsertIgnoreDuplicates(rows, records) ==
  [t \in Topics |-> IF records[t] # NoRow /\ rows[t] = NoRow THEN records[t] ELSE rows[t]]

UpsertRows(rows, records) ==
  [t \in Topics |-> IF records[t] # NoRow THEN records[t] ELSE rows[t]]

\* upsert(upsertRecords, onConflict user_id,topic_id); an error is only logged
UpsertWeights(p, ok) ==
  /\ pc[p] = "upsert"
  /\ LET u == call[p].user
     IN user_topics' = IF ok
          THEN [user_topics EXCEPT ![u] = UpsertRows(user_topics[u], upsertRecords[p])]
          ELSE user_topics
  /\ upsertError' = [upsertError EXCEPT ![p] = ~ok]
  /\ pc' = [pc EXCEPT ![p] = "done"]
  /\ mutationResult' = [mutationResult EXCEPT ![p] = ResultAfterUpdate(@, ~ok)]
  /\ UNCHANGED <<user_content, call, topicIds, existingMap, upsertRecords,
                 ops, svars, jvars, tvars, fvars, pvars, hvars, rvars>>

NoUnfollow == [user |-> "u1", topic |-> "t1", weight |-> NoRow, ops |-> 0]

\* useToggleTopic, isFollowing = true: delete the row
Unfollow(u, t) ==
  /\ ops < MaxOps
  /\ ops' = ops + 1
  /\ user_topics' = [user_topics EXCEPT ![u][t] = NoRow]
  /\ unfollowed' = [user |-> u, topic |-> t, weight |-> user_topics[u][t], ops |-> ops + 1]
  /\ UNCHANGED <<user_content, pc, call, topicIds, existingMap, upsertRecords,
                 mutationResult, upsertError, svars, jvars, tvars, fvars, pvars, hvars>>
  /\ UNCHANGED <<simCall, poolItem, detectRetries, feedResponse, setOutcome, mvars>>

\* useToggleTopic, isFollowing = false: insert a row with weight 1.0;
\* the primary key (user_id, topic_id) rejects a second row
FollowUpsert(u, t) ==
  /\ ops < MaxOps
  /\ ops' = ops + 1
  /\ user_topics' = [user_topics EXCEPT ![u][t] = DEFAULT_WEIGHT]
  /\ UNCHANGED <<user_content, pc, call, topicIds, existingMap, upsertRecords,
                 mutationResult, upsertError, svars, jvars, tvars, fvars, pvars, hvars, rvars>>

Follow(u, t) ==
  /\ ops < MaxOps
  /\ ops' = ops + 1
  /\ user_topics' = IF user_topics[u][t] = NoRow
                      THEN [user_topics EXCEPT ![u][t] = DEFAULT_WEIGHT]
                      ELSE user_topics
  /\ UNCHANGED <<user_content, pc, call, topicIds, existingMap, upsertRecords,
                 mutationResult, upsertError, svars, jvars, tvars, fvars, pvars, hvars, rvars>>

NoSetOutcome == [user |-> "u1", topicIds |-> {}, before |-> NoMap, result |-> "none"]

\* useSetUserTopics: delete every row of the user; the result is not looked at
SetTopicsDelete(u, ids, ok) ==
  /\ setPc = "idle"
  /\ ops < MaxOps
  /\ ops' = ops + 1
  /\ user_topics' = IF ok THEN [user_topics EXCEPT ![u] = [t \in Topics |-> NoRow]]
                          ELSE user_topics
  /\ setCall' = [user |-> u, topicIds |-> ids]
  /\ setPc' = IF ids # {} THEN "insert" ELSE "idle"
  /\ setOutcome' = [user |-> u, topicIds |-> ids, before |-> user_topics[u],
                    result |-> IF ids # {} THEN "running" ELSE "success"]
  /\ UNCHANGED <<user_content, pc, call, topicIds, existingMap, upsertRecords,
                 mutationResult, upsertError, svars, jvars, tvars, pvars, hvars>>
  /\ UNCHANGED <<simCall, poolItem, detectRetries, feedResponse, unfollowed, mvars>>

\* useSetUserTopics: one insert of a row of weight 1.0 per topic id; the primary
\* key rejects the whole statement when one of the rows is there
SetTopicsInsert(ok) ==
  /\ setPc = "insert"
  /\ LET u == setCall.user
         free == \A t \in setCall.topicIds : user_topics[u][t] = NoRow
     IN user_topics' = IF ok /\ free
          THEN [user_topics EXCEPT ![u] =
                  [t \in Topics |-> IF t \in setCall.topicIds THEN DEFAULT_WEIGHT ELSE @[t]]]
          ELSE user_topics
  /\ setPc' = "idle"
  /\ setOutcome' = [setOutcome EXCEPT !.result =
                      IF ok /\ \A t \in setCall.topicIds : user_topics[setCall.user][t] = NoRow
                        THEN "success" ELSE "error"]
  /\ UNCHANGED <<setCall, user_content, pc, call, topicIds, existingMap,
                 upsertRecords, mutationResult, upsertError, ops, svars, jvars, tvars, pvars, hvars>>
  /\ UNCHANGED <<simCall, poolItem, detectRetries, feedResponse, unfollowed, mvars>>

NextWeights ==
  \/ \E p \in Procs, u \in Users, c \in InteractedContents, i \in Interactions,
          ok \in BOOLEAN :
       Mutate(p, u, c, i, ok)
  \/ \E p \in Procs, found \in BOOLEAN, ok \in BOOLEAN : FetchSourceTopics(p, found, ok)
  \/ \E p \in Procs, ok \in BOOLEAN : ReadWeights(p, ok)
  \/ \E p \in Procs, ok \in BOOLEAN : UpsertWeights(p, ok)
  \/ \E u \in Users, t \in Topics : Unfollow(u, t)
  \/ \E u \in Users, t \in Topics : Follow(u, t)

(***************************************************************************)
(* Digest Assembler: generateUserDigest                                    *)
(***************************************************************************)
MAX_PER_SOURCE == 2
MAX_ITEMS == 10
DEFAULT_QUALITY == 50
RECENCY_BOOST == 20

NoResult == [user |-> "none", contentIds |-> <<>>, scored |-> <<>>, visited |-> 0,
             reason |-> "none"]

\* user_topics rows the digest specifications start from: u1 follows nothing,
\* a topic without sources, one topic, or two topics; u2 follows t1
DigestFollows ==
  {[u \in Users |-> IF u = "u1" THEN r
                    ELSE [t1 |-> DEFAULT_WEIGHT, t2 |-> NoRow, t3 |-> NoRow]] :
     r \in {[t1 |-> NoRow, t2 |-> NoRow, t3 |-> NoRow],
             [t1 |-> NoRow, t2 |-> NoRow, t3 |-> DEFAULT_WEIGHT],
             [t1 |-> DEFAULT_WEIGHT, t2 |-> NoRow, t3 |-> NoRow],
             [t1 |-> DEFAULT_WEIGHT, t2 |-> DEFAULT_WEIGHT, t3 |-> NoRow]}}

\* select topic_id from user_topics where user_id = userId
FollowedTopics(u) == {t \in Topics : user_topics[u][t] # NoRow}

\* select source_id from source_topics where topic_id in topicIds, as a set
MatchingSources(topics) ==
  {s \in Sources : SeqToSet(SourceTopics(s)) \cap topics # {}}

\* the ids in ids, ascending, as a sequence
RECURSIVE AscendingSeq(_)
AscendingSeq(ids) ==
  IF ids = {} THEN <<>>
  ELSE LET m == CHOOSE x \in ids : \A y \in ids : x <= y
       IN <<m>> \o AscendingSeq(ids \ {m})

\* select ... from content where source_id in sourceIds and
\* published_at >= twentyFourHoursAgo order by published_at desc
RecentContent(sourceIds) ==
  AscendingSeq({c \in fresh : ContentSource(c) \in sourceIds})

\* one element of scoredContent
ScoreItem(c) ==
  LET q == QualityScore(ContentSource(c))
      qualityScore == IF q = NullScore THEN DEFAULT_QUALITY ELSE q
  IN [id |-> c, sourceId |-> ContentSource(c), qualityScore |-> qualityScore,
      score |-> qualityScore + RECENCY_BOOST]

\* Array.prototype.sort((a, b) => b.score - a.score): stable, descending
InsertByScore(sorted, item) ==
  LET k == Cardinality({i \in 1..Len(sorted) : sorted[i].score >= item.score})
  IN SubSeq(sorted, 1, k) \o <<item>> \o SubSeq(sorted, k + 1, Len(sorted))

RECURSIVE SortByScore(_)
SortByScore(items) ==
  IF items = <<>> THEN <<>>
  ELSE InsertByScore(SortByScore(SubSeq(items, 1, Len(items) - 1)), items[Len(items)])

\* if (currentCount < 2)
UnderSourceCapOffByOne(currentCount) == currentCount <= MAX_PER_SOURCE

UnderSourceCap(currentCount) == currentCount < MAX_PER_SOURCE

\* if (selectedContent.length >= 10) break
ReachedLimitOffByOne(n) == n > MAX_ITEMS

ReachedLimit(n) == n >= MAX_ITEMS

\* the for-loop over scoredContent from position i on; visited is the position
\* of the last item the loop looked at
RECURSIVE Walk(_, _, _, _)
Walk(scoredContent, i, selectedContent, sourceCount) ==
  IF i > Len(scoredContent)
    THEN [selected |-> selectedContent, visited |-> Len(scoredContent)]
    ELSE LET item == scoredContent[i]
             currentCount == sourceCount[item.sourceId]
             take == UnderSourceCap(currentCount)
             selected2 == IF take THEN Append(selectedContent, item)
                          ELSE selectedContent
             count2 == IF take
                         THEN [sourceCount EXCEPT ![item.sourceId] = currentCount + 1]
                         ELSE sourceCount
         IN IF ReachedLimit(Len(selected2))
              THEN [selected |-> selected2, visited |-> i]
              ELSE Walk(scoredContent, i + 1, selected2, count2)

\* generateUserDigest(userId), its three reads succeeding
GenerateUserDigest(u) ==
  LET topics == FollowedTopics(u)
      sourceIds == MatchingSources(topics)
      content == RecentContent(sourceIds)
      scoredContent == SortByScore([i \in 1..Len(content) |-> ScoreItem(content[i])])
      w == Walk(scoredContent, 1, <<>>, [s \in Sources |-> 0])
  IN IF topics = {}
       THEN [NoResult EXCEPT !.user = u, !.reason = "no topics"]
     ELSE IF sourceIds = {}
       THEN [NoResult EXCEPT !.user = u, !.reason = "no sources"]
     ELSE IF Len(content) = 0
       THEN [NoResult EXCEPT !.user = u, !.reason = "no content"]
     ELSE [user |-> u,
           contentIds |-> [i \in 1..Len(w.selected) |-> w.selected[i].id],
           scored |-> [i \in 1..Len(scoredContent) |-> scoredContent[i].id],
           visited |-> w.visited,
           reason |-> "selected"]

\* one call of generateUserDigest
CallGenerateUserDigest(u) ==
  /\ digestResult' = GenerateUserDigest(u)
  /\ UNCHANGED <<user_topics, fresh, wvars, jvars, tvars, fvars, pvars, hvars, rvars>>

(***************************************************************************)
(* Digest Assembler: the sendDigests job                                   *)
(***************************************************************************)
Runs == {"r1", "r2"}

\* getUsersForDigestHour(currentHour): both users have this digest hour
DigestUsers == <<"u1", "u2">>

\* hasDigestForToday's query: the rows of the user for a date
DigestsFor(u, date) == {d \in digests : d.user_id = u /\ d.date = date}

\* insert into digests; unique (user_id, date) rejects the row (rows unchanged)
InsertDigestNoUnique(rows, row) == rows \cup {row}

InsertDigest(rows, row) ==
  IF \E d \in rows : d.user_id = row.user_id /\ d.date = row.date
    THEN rows
    ELSE rows \cup {row}

\* if (contentIds.length === 0)
IsEmptyDigestNever(contentIds) == Len(contentIds) < 0

IsEmptyDigest(contentIds) == Len(contentIds) = 0

JobIdle ==
  /\ digests = {}
  /\ today = 1
  /\ rpc = [r \in Runs |-> "idle"]
  /\ ridx = [r \in Runs |-> 0]
  /\ rcontent = [r \in Runs |-> <<>>]
  /\ generated = [r \in Runs |-> 0]
  /\ skipped = [r \in Runs |-> 0]
  /\ failed = [r \in Runs |-> 0]
  /\ lastOutcome = [r \in Runs |-> "none"]
  /\ runsStarted = 0

\* the end of one iteration of for (const user of users)
NextUserAgain(r) ==
  /\ ridx' = ridx
  /\ rpc' = [rpc EXCEPT ![r] = "check"]
  /\ rcontent' = [rcontent EXCEPT ![r] = <<>>]

NextUser(r) ==
  /\ ridx' = [ridx EXCEPT ![r] = ridx[r] + 1]
  /\ rpc' = [rpc EXCEPT ![r] = IF ridx[r] + 1 > Len(DigestUsers) THEN "finished"
                                ELSE "check"]
  /\ rcontent' = [rcontent EXCEPT ![r] = <<>>]

\* run: getUsersForDigestHour, the counters; an error here leaves the run
StartRun(r, ok) ==
  /\ rpc[r] \in {"idle", "finished", "crashed"}
  /\ runsStarted < MaxRuns
  /\ runsStarted' = runsStarted + 1
  /\ generated' = [generated EXCEPT ![r] = 0]
  /\ skipped' = [skipped EXCEPT ![r] = 0]
  /\ failed' = [failed EXCEPT ![r] = 0]
  /\ lastOutcome' = [lastOutcome EXCEPT ![r] = "none"]
  /\ rcontent' = [rcontent EXCEPT ![r] = <<>>]
  /\ ridx' = [ridx EXCEPT ![r] = IF ok THEN 1 ELSE 0]
  /\ rpc' = [rpc EXCEPT ![r] = IF ok THEN "check" ELSE "crashed"]
  /\ UNCHANGED <<digests, today, user_topics, wvars, svars, tvars, fvars, pvars, hvars, rvars>>

\* hasDigestForToday(user.id) and the branch on it
CheckExisting(r, ok) ==
  /\ rpc[r] = "check"
  /\ LET rows == DigestsFor(DigestUsers[ridx[r]], today)
     IN IF ~ok \/ Cardinality(rows) > 1
          THEN \* the query failed (maybeSingle fails on two rows): catch
               /\ failed' = [failed EXCEPT ![r] = failed[r] + 1]
               /\ lastOutcome' = [lastOutcome EXCEPT ![r] = "failed"]
               /\ NextUser(r)
               /\ UNCHANGED skipped
        ELSE IF rows # {}
          THEN /\ skipped' = [skipped EXCEPT ![r] = skipped[r] + 1]
               /\ lastOutcome' = [lastOutcome EXCEPT ![r] = "already has a digest"]
               /\ NextUser(r)
               /\ UNCHANGED failed
          ELSE /\ rpc' = [rpc EXCEPT ![r] = "generate"]
               /\ UNCHANGED <<ridx, rcontent, skipped, failed, lastOutcome>>
  /\ UNCHANGED <<digests, today, generated, runsStarted, user_topics, wvars, svars, tvars, fvars, pvars, hvars, rvars>>

\* generateUserDigest(user.id) and the branch on an empty list
Generate(r, ok) ==
  /\ rpc[r] = "generate"
  /\ LET res == GenerateUserDigest(DigestUsers[ridx[r]])
     IN IF ~ok
          THEN /\ failed' = [failed EXCEPT ![r] = failed[r] + 1]
               /\ lastOutcome' = [lastOutcome EXCEPT ![r] = "failed"]
               /\ NextUser(r)
               /\ UNCHANGED skipped
        ELSE IF IsEmptyDigest(res.contentIds)
          THEN /\ skipped' = [skipped EXCEPT ![r] = skipped[r] + 1]
               /\ lastOutcome' = [lastOutcome EXCEPT ![r] = "no content"]
               /\ NextUser(r)
               /\ UNCHANGED failed
          ELSE /\ rcontent' = [rcontent EXCEPT ![r] = res.contentIds]
               /\ rpc' = [rpc EXCEPT ![r] = "store"]
               /\ UNCHANGED <<ridx, skipped, failed, lastOutcome>>
  /\ UNCHANGED <<digests, today, generated, runsStarted, user_topics, wvars, svars, tvars, fvars, pvars, hvars, rvars>>

\* storeDigest(user.id, contentIds), then generated++
StoreDigest(r, ok) ==
  /\ rpc[r] = "store"
  /\ LET row == [id |-> Cardinality(digests) + 1,
                 user_id |-> DigestUsers[ridx[r]],
                 date |-> today,
                 content_ids |-> rcontent[r]]
         rows == IF ok THEN InsertDigest(digests, row) ELSE digests
     IN /\ digests' = rows
        /\ IF rows # digests
             THEN /\ generated' = [generated EXCEPT ![r] = generated[r] + 1]
                  /\ lastOutcome' = [lastOutcome EXCEPT ![r] = "stored"]
                  /\ UNCHANGED failed
             ELSE /\ failed' = [failed EXCEPT ![r] = failed[r] + 1]
                  /\ lastOutcome' = [lastOutcome EXCEPT ![r] = "failed"]
                  /\ UNCHANGED generated
  /\ NextUser(r)
  /\ UNCHANGED <<today, skipped, runsStarted, user_topics, wvars, svars, tvars, fvars, pvars, hvars, rvars>>

\* midnight UTC passes
Tick ==
  /\ today < MaxDay
  /\ today' = today + 1
  /\ UNCHANGED <<digests, rpc, ridx, rcontent, generated, skipped, failed,
                 lastOutcome, runsStarted, user_topics, wvars, svars, tvars, fvars, pvars, hvars, rvars>>

\* content tables the job is run against
JobFresh == {{}, {1, 2, 8}, Contents}

(***************************************************************************)
(* Theme Clusterer                                                         *)
(***************************************************************************)
\* content.embedding is null
NullEmbedding == <<>>

\* <<1,0>> and <<4,3>> have cosine similarity exactly 0.8, <<4,3>> and <<1,1>>
\* are similar, <<1,0>> and <<1,1>> are not; <<0,0>> has magnitude 0
Embeddings == {<<1, 0>>, <<4, 3>>, <<1, 1>>, <<0, 0>>}

\* content rows published in the past 7 days
ThemeContents == {1, 2, 5, 7, 8, 9}

\* clusterContentBySimilarity(contentWithEmbeddings, 0.8), 0.8 as a fraction
THRESHOLD_NUM == 4
THRESHOLD_DEN == 5
\* content.length < 3
MIN_THEME_CONTENT == 3
\* cluster.sourceIds.size >= 3
MIN_THEME_SOURCES == 3
\* validClusters.slice(0, 5)
MAX_THEMES == 5

RECURSIVE SumProducts(_, _, _)
SumProducts(a, b, i) ==
  IF i > Len(a) THEN 0 ELSE a[i] * b[i] + SumProducts(a, b, i + 1)

\* the similarity dotProduct / (sqrt(normA) * sqrt(normB)) is kept as the pair
\* of dotProduct and normA * normB; 0 is the pair (0, 1)
\* (CosineSimilarityNoZeroCheck: the same without the test of the magnitude)
CosineSimilarityNoZeroCheck(a, b) ==
  IF Len(a) # Len(b)
    THEN [dot |-> 0, sq |-> 1]
    ELSE [dot |-> SumProducts(a, b, 1),
          sq |-> SumProducts(a, a, 1) * SumProducts(b, b, 1)]

CosineSimilarity(a, b) ==
  IF Len(a) # Len(b)
    THEN [dot |-> 0, sq |-> 1]
    ELSE LET dotProduct == SumProducts(a, b, 1)
             normA == SumProducts(a, a, 1)
             normB == SumProducts(b, b, 1)
         IN IF normA * normB = 0
              THEN [dot |-> 0, sq |-> 1]
              ELSE [dot |-> dotProduct, sq |-> normA * normB]

\* similarity >= threshold (AboveThreshold: similarity > threshold)
AboveThreshold(similarity) ==
  /\ similarity.dot > 0
  /\ THRESHOLD_DEN * THRESHOLD_DEN * similarity.dot * similarity.dot
       > THRESHOLD_NUM * THRESHOLD_NUM * similarity.sq

AtLeastThreshold(similarity) ==
  /\ similarity.dot >= 0
  /\ THRESHOLD_DEN * THRESHOLD_DEN * similarity.dot * similarity.dot
       >= THRESHOLD_NUM * THRESHOLD_NUM * similarity.sq

Cluster(ids) ==
  [contentIds |-> ids, sourceIds |-> {ContentSource(ids[i]) : i \in 1..Len(ids)}]

\* the inner loop: every unassigned item similar to the seed joins the cluster
\* (GrowClusterChained: similar to the member that joined last)
RECURSIVE GrowClusterChained(_, _, _, _, _)
GrowClusterChained(content, item, j, ids, assigned) ==
  IF j > Len(content)
    THEN [ids |-> ids, assigned |-> assigned]
    ELSE LET other == content[j]
         IN IF other \in assigned
              THEN GrowClusterChained(content, item, j + 1, ids, assigned)
              ELSE IF AtLeastThreshold(CosineSimilarity(embedding[ids[Len(ids)]],
                                                        embedding[other]))
                THEN GrowClusterChained(content, item, j + 1, Append(ids, other),
                                        assigned \cup {other})
                ELSE GrowClusterChained(content, item, j + 1, ids, assigned)

RECURSIVE GrowCluster(_, _, _, _, _)
GrowCluster(content, item, j, ids, assigned) ==
  IF j > Len(content)
    THEN [ids |-> ids, assigned |-> assigned]
    ELSE LET other == content[j]
         IN IF other \in assigned
              THEN GrowCluster(content, item, j + 1, ids, assigned)
              ELSE IF AtLeastThreshold(CosineSimilarity(embedding[item], embedding[other]))
                THEN GrowCluster(content, item, j + 1, Append(ids, other),
                                 assigned \cup {other})
                ELSE GrowCluster(content, item, j + 1, ids, assigned)

\* if (cluster.contentIds.length > 1)
KeepCluster(ids) == Len(ids) > 1

\* the outer loop over content
RECURSIVE ClusterLoop(_, _, _, _)
ClusterLoop(content, i, clusters, assigned) ==
  IF i > Len(content)
    THEN clusters
    ELSE LET item == content[i]
         IN IF item \in assigned
              THEN ClusterLoop(content, i + 1, clusters, assigned)
              ELSE LET g == GrowCluster(content, item, 1, <<item>>,
                                        assigned \cup {item})
                   IN ClusterLoop(content, i + 1,
                                  IF KeepCluster(g.ids)
                                    THEN Append(clusters, Cluster(g.ids))
                                    ELSE clusters,
                                  g.assigned)

\* the place of cluster x in a list sorted by b.sourceIds.size - a.sourceIds.size
\* (Array.prototype.sort is stable)
InsertBySources(sorted, x) ==
  LET k == Cardinality({i \in 1..Len(sorted) :
                 Cardinality(sorted[i].sourceIds) >= Cardinality(x.sourceIds)})
  IN SubSeq(sorted, 1, k) \o <<x>> \o SubSeq(sorted, k + 1, Len(sorted))

\* (Unsorted: the clusters in the order the loop made them)
Unsorted(clusters) == clusters

RECURSIVE SortBySources(_)
SortBySources(clusters) ==
  IF clusters = <<>>
    THEN <<>>
    ELSE InsertBySources(SortBySources(SubSeq(clusters, 1, Len(clusters) - 1)),
                         clusters[Len(clusters)])

ClusterContentBySimilarity(content) ==
  SortBySources(ClusterLoop(content, 1, <<>>, {}))

\* cluster.sourceIds.size >= 3
HasEnoughSourcesTwo(cluster) == Cardinality(cluster.sourceIds) >= MIN_THEME_SOURCES - 1

HasEnoughSources(cluster) == Cardinality(cluster.sourceIds) >= MIN_THEME_SOURCES

\* order("published_at", { ascending: false }): a later id is published later
RECURSIVE DescendingSeq(_)
DescendingSeq(S) ==
  IF S = {}
    THEN <<>>
    ELSE LET m == CHOOSE x \in S : \A y \in S : y <= x
         IN <<m>> \o DescendingSeq(S \ {m})

\* the content query of detectThemesForTopic
EmbeddedContent(topicId) ==
  DescendingSeq({c \in DOMAIN embedding :
                   /\ topicId \in SeqToSet(SourceTopics(ContentSource(c)))
                   /\ embedding[c] # NullEmbedding})

\* generateThemeTitle: the fallback title when the call throws
GenerateThemeTitle(ok) == IF ok THEN "Trending in topic: subtitle" ELSE "Trending in topic"

\* detectThemesForTopic without its two read errors; titleFails are the
\* positions of the clusters whose title request throws
DetectThemesForTopic(topicId, titleFails) ==
  LET sourceIds == {s \in Sources : topicId \in SeqToSet(SourceTopics(s))}
      content == EmbeddedContent(topicId)
      validClusters == SelectSeq(ClusterContentBySimilarity(content), HasEnoughSources)
      n == IF Len(validClusters) < MAX_THEMES THEN Len(validClusters) ELSE MAX_THEMES
  IN IF sourceIds = {}
       THEN <<>>
       ELSE IF Len(content) < MIN_THEME_CONTENT
         THEN <<>>
         ELSE [i \in 1..n |->
                 [title |-> GenerateThemeTitle(i \notin titleFails),
                  contentIds |-> validClusters[i].contentIds,
                  sourceCount |-> Cardinality(validClusters[i].sourceIds)]]

\* the call of clusterContentBySimilarity that detectThemesForTopic makes, if
\* it gets that far
NotClustered == [called |-> FALSE, content |-> <<>>, clusters |-> <<>>]

ClusterCallOf(topicId) ==
  LET content == EmbeddedContent(topicId)
  IN IF Len(content) < MIN_THEME_CONTENT
       THEN NotClustered
       ELSE [called |-> TRUE, content |-> content,
             clusters |-> ClusterContentBySimilarity(content)]

(***************************************************************************)
(* The detectThemes job                                                    *)
(***************************************************************************)
\* getAllTopics
DetectTopics == <<"t1", "t2", "t3">>

TitleFailures == SUBSET {1, 2}

ThemesIdle ==
  /\ themes = {}
  /\ dpc = "idle"
  /\ dtopic = 0
  /\ themeCandidates = <<>>
  /\ clustered = NotClustered
  /\ cidx = 0
  /\ totalThemesCreated = 0
  /\ topicsProcessed = 0
  /\ topicsWithThemes = 0
  /\ themesFailed = 0
  /\ topicOutcome = [t \in Topics |-> "pending"]
  /\ storeFailedAt = [t \in Topics |-> 0]

NoEmbeddings == [c \in Contents |-> NullEmbedding]

\* the for-loop moves to the next topic, or the job returns its result
NextTopic ==
  /\ dtopic' = dtopic + 1
  /\ dpc' = IF dtopic + 1 > Len(DetectTopics) THEN "done" ELSE "detect"
  /\ cidx' = 0

\* cleanupExpiredThemes and getAllTopics; either throws out of the job
StartDetect(ok) ==
  /\ dpc = "idle"
  /\ IF ok
       THEN /\ dpc' = IF Len(DetectTopics) = 0 THEN "done" ELSE "detect"
            /\ dtopic' = 1
       ELSE /\ dpc' = "crashed"
            /\ UNCHANGED dtopic
  /\ UNCHANGED <<embedding, themes, themeCandidates, clustered, cidx, totalThemesCreated,
                 topicsProcessed, topicsWithThemes, themesFailed, topicOutcome,
                 storeFailedAt, user_topics, wvars, svars, jvars, fvars, pvars, hvars, rvars>>

\* detectThemesForTopic for the current topic
DetectTopic(ok, titleFails) ==
  /\ dpc = "detect"
  /\ LET t == DetectTopics[dtopic]
         found == DetectThemesForTopic(t, titleFails)
     IN IF ~ok
          THEN /\ themesFailed' = themesFailed + 1
               /\ topicOutcome' = [topicOutcome EXCEPT ![t] = "detect failed"]
               /\ NextTopic
               /\ UNCHANGED <<themeCandidates, topicsProcessed>>
          ELSE IF Len(found) = 0
            THEN /\ topicsProcessed' = topicsProcessed + 1
                 /\ topicOutcome' = [topicOutcome EXCEPT ![t] = "no themes"]
                 /\ themeCandidates' = found
                 /\ NextTopic
                 /\ UNCHANGED themesFailed
            ELSE /\ themeCandidates' = found
                 /\ cidx' = 1
                 /\ dpc' = "store"
                 /\ topicOutcome' = [topicOutcome EXCEPT ![t] = "storing"]
                 /\ UNCHANGED <<dtopic, themesFailed, topicsProcessed>>
  /\ clustered' = IF ok THEN ClusterCallOf(DetectTopics[dtopic]) ELSE NotClustered
  /\ UNCHANGED <<embedding, themes, totalThemesCreated, topicsWithThemes,
                 storeFailedAt, user_topics, wvars, svars, jvars, fvars, pvars, hvars, rvars>>

\* storeTheme for the current candidate; an error is thrown to the catch of
\* the topic loop
StoreTheme(ok) ==
  /\ dpc = "store"
  /\ LET t == DetectTopics[dtopic]
         theme == themeCandidates[cidx]
     IN IF ok
          THEN /\ themes' = themes \cup
                     {[id |-> Cardinality(themes) + 1, topic_id |-> t,
                       title |-> theme.title, content_ids |-> theme.contentIds]}
               /\ totalThemesCreated' = totalThemesCreated + 1
               /\ IF cidx = Len(themeCandidates)
                    THEN /\ topicsWithThemes' = topicsWithThemes + 1
                         /\ topicsProcessed' = topicsProcessed + 1
                         /\ topicOutcome' = [topicOutcome EXCEPT ![t] = "stored"]
                         /\ NextTopic
                    ELSE /\ cidx' = cidx + 1
                         /\ UNCHANGED <<dpc, dtopic, topicsWithThemes,
                                        topicsProcessed, topicOutcome>>
               /\ UNCHANGED <<themesFailed, storeFailedAt>>
          ELSE /\ themesFailed' = themesFailed + 1
               /\ storeFailedAt' = [storeFailedAt EXCEPT ![t] = cidx]
               /\ topicOutcome' = [topicOutcome EXCEPT ![t] = "store failed"]
               /\ NextTopic
               /\ UNCHANGED <<themes, totalThemesCreated, topicsWithThemes,
                              topicsProcessed>>
  /\ UNCHANGED <<embedding, themeCandidates, clustered, user_topics, wvars, svars, jvars, fvars, pvars, hvars, rvars>>

\* the job is run again before a theme has expired and with the content
\* unchanged: its counters start from 0, the themes table is what it was
RetryDetect ==
  /\ dpc \in {"done", "crashed"}
  /\ detectRetries + 1 < MaxDetectRuns
  /\ detectRetries' = detectRetries + 1
  /\ dpc' = "idle"
  /\ dtopic' = 0
  /\ themeCandidates' = <<>>
  /\ clustered' = NotClustered
  /\ cidx' = 0
  /\ totalThemesCreated' = 0
  /\ topicsProcessed' = 0
  /\ topicsWithThemes' = 0
  /\ themesFailed' = 0
  /\ topicOutcome' = [t \in Topics |-> "pending"]
  /\ storeFailedAt' = [t \in Topics |-> 0]
  /\ UNCHANGED <<embedding, themes, user_topics, wvars, svars, jvars, fvars, pvars, hvars>>
  /\ UNCHANGED <<simCall, poolItem, uvars, mvars>>

(***************************************************************************)
(* Feed Scorer                                                             *)
(***************************************************************************)
\* milliseconds per hour: (1000 * 60 * 60)
MS_PER_HOUR == 3600000
\* hoursAgo < 24
DAY_HOURS == 24
\* hoursAgo < 24 * 7
WEEK_HOURS == 168
RECENT_BOOST == 20
WEEK_BOOST == 10
\* Math.min(50, avgMatch * 50)
TOPIC_MATCH_SCALE == 50

\* the item is published at instant 0; the instants at which new Date() is
\* read, in milliseconds: one hour before, 2 hours after, and around 24 hours
\* and 7 days after
Instants ==
  <<0 - 3600000, 7200000, 86399999, 86400000, 86400001,
    604799999, 604800000, 604800001>>

PublishedAt == 0

\* calculateRecencyBoost with the clock read as nowMs;
\* hoursAgo < h is ageMs / MS_PER_HOUR < h
CalculateRecencyBoostInclusive(publishedAt, nowMs) ==
  LET ageMs == nowMs - publishedAt
  IN IF ageMs <= DAY_HOURS * MS_PER_HOUR THEN RECENT_BOOST
     ELSE IF ageMs <= WEEK_HOURS * MS_PER_HOUR THEN WEEK_BOOST
     ELSE 0

CalculateRecencyBoostByHour(publishedAt, nowMs) ==
  LET ageMs == nowMs - publishedAt
  IN IF ageMs < DAY_HOURS * MS_PER_HOUR THEN RECENT_BOOST - (ageMs \div MS_PER_HOUR)
     ELSE IF ageMs < WEEK_HOURS * MS_PER_HOUR THEN WEEK_BOOST
     ELSE 0

CalculateRecencyBoost(publishedAt, nowMs) ==
  LET ageMs == nowMs - publishedAt
  IN IF ageMs < DAY_HOURS * MS_PER_HOUR THEN RECENT_BOOST
     ELSE IF ageMs < WEEK_HOURS * MS_PER_HOUR THEN WEEK_BOOST
     ELSE 0

\* the topics of the source_topics and user_topics lists given to the scorer
FeedTopics == {"t1", "t2"}
\* source_topics.relevance in hundredths; NoRel: the source has no row for the topic
NoRel == 0 - 1
Relevances == {0, 50, 100}
\* user_topics.weight in hundredths
FeedWeights == {10, 200, 500}
\* sources.quality_score, or null
Qualities == {NullScore, 0, 80}

RECURSIVE SumOver(_, _)
SumOver(S, f) ==
  IF S = {} THEN 0
  ELSE LET x == CHOOSE y \in S : TRUE IN f[x] + SumOver(S \ {x}, f)

\* a number of score points as the fraction num / den
Whole(n) == [num |-> n, den |-> 1]
Plus(n, q) == [num |-> n * q.den + q.num, den |-> q.den]
SameValue(q, r) == q.num * r.den = r.num * q.den

\* Math.min(50, avgMatch * 50), avgMatch = weightedSum / totalWeight; with
\* weights and relevances in hundredths avgMatch * 50 is sumWR / (2 * sumR)
CapMatchNone(sumWR, sumR) == [num |-> sumWR, den |-> 2 * sumR]

CapMatch(sumWR, sumR) ==
  IF sumWR >= 2 * TOPIC_MATCH_SCALE * sumR
    THEN Whole(TOPIC_MATCH_SCALE)
    ELSE [num |-> sumWR, den |-> 2 * sumR]

\* calculateTopicMatch(sourceTopics, userTopics)
CalculateTopicMatch(relevance, weights) ==
  LET sourceTopics == {t \in FeedTopics : relevance[t] # NoRel}
      userTopics == {t \in FeedTopics : weights[t] # NoRow}
      shared == sourceTopics \cap userTopics
      weightedSum == SumOver(shared, [t \in FeedTopics |-> weights[t] * relevance[t]])
      totalWeight == SumOver(shared, [t \in FeedTopics |-> relevance[t]])
  IN IF sourceTopics = {} \/ userTopics = {}
       THEN Whole(0)
       ELSE IF totalWeight = 0
         THEN Whole(0)
         ELSE CapMatch(weightedSum, totalWeight)

\* source?.quality_score ?? 50
BaseScoreOr(quality) == IF quality = NullScore \/ quality = 0 THEN DEFAULT_QUALITY ELSE quality

BaseScore(quality) == IF quality = NullScore THEN DEFAULT_QUALITY ELSE quality

\* one element of scoredContents, with the inputs it was computed from
Evaluate(quality, relevance, weights, at) ==
  LET baseScore == BaseScore(quality)
      topicMatch == CalculateTopicMatch(relevance, weights)
      recencyBoost == CalculateRecencyBoost(PublishedAt, Instants[at])
  IN [at |-> at, quality |-> quality, relevance |-> relevance, weights |-> weights,
      personalization_score |-> Plus(baseScore + recencyBoost, topicMatch),
      score_breakdown |-> [base_score |-> baseScore,
                           topic_match |-> topicMatch,
                           recency_boost |-> recencyBoost]]

NoEvaluation ==
  [at |-> 0, quality |-> NullScore,
   relevance |-> [t \in FeedTopics |-> NoRel], weights |-> [t \in FeedTopics |-> NoRow],
   personalization_score |-> Whole(0),
   score_breakdown |-> [base_score |-> 0, topic_match |-> Whole(0), recency_boost |-> 0]]

FeedIdle ==
  /\ clock = 1
  /\ feedFirst = NoEvaluation
  /\ feedSecond = NoEvaluation

\* the handler scores an item
ScoreItemForFeed(quality, relevance, weights) ==
  /\ feedFirst.at = 0
  /\ feedFirst' = Evaluate(quality, relevance, weights, clock)
  /\ UNCHANGED <<clock, feedSecond, user_topics, wvars, svars, jvars, tvars, fvars, hvars, rvars>>

\* a later request scores the same item with the same rows
ScoreItemAgain ==
  /\ feedFirst.at # 0
  /\ feedSecond.at = 0
  /\ feedSecond' = Evaluate(feedFirst.quality, feedFirst.relevance, feedFirst.weights, clock)
  /\ UNCHANGED <<clock, feedFirst, user_topics, wvars, svars, jvars, tvars, fvars, hvars, rvars>>

\* time passes
AdvanceClock ==
  /\ clock < Len(Instants)
  /\ clock' = clock + 1
  /\ UNCHANGED <<feedFirst, feedSecond, user_topics, wvars, svars, jvars, tvars, fvars, hvars, rvars>>

(***************************************************************************)
(* Hybrid Search                                                           *)
(***************************************************************************)
Items == {"A", "B", "C", "D"}

\* the lists of at most MaxListLen items without a duplicate
RECURSIVE ListsOfLen(_)
ListsOfLen(n) ==
  IF n = 0 THEN {<<>>}
  ELSE {Append(l, x) : l \in ListsOfLen(n - 1), x \in Items} \ 
       {l \in {Append(m, x) : m \in ListsOfLen(n - 1), x \in Items} :
          \E i, j \in 1..n : i < j /\ l[i] = l[j]}

ResultLists == UNION {ListsOfLen(n) : n \in 0..MaxListLen}

Limits == (0..MaxLimit) \cup {10}

\* scores in tenths: keywordResults.length - index
KeywordScore(len, index) == (len - index) * 10

\* (semanticResults.length - index) * 1.5, added to the keyword score
BothBoost(len, index) == (len - index) * 15

\* (semanticResults.length - index) * 0.8
SemanticOnlyScoreHigh(len, index) == (len - index) * 12

SemanticOnlyScore(len, index) == (len - index) * 8

\* the zero-based index of x in list
IndexOf(list, x) == (CHOOSE i \in 1..Len(list) : list[i] = x) - 1

\* the score field of the resultMap entry of x after the two forEach loops
MergedScore(keywordResults, semanticResults, x) ==
  IF x \in SeqToSet(keywordResults)
    THEN KeywordScore(Len(keywordResults), IndexOf(keywordResults, x))
           + (IF x \in SeqToSet(semanticResults)
                THEN BothBoost(Len(semanticResults), IndexOf(semanticResults, x))
                ELSE 0)
    ELSE SemanticOnlyScore(Len(semanticResults), IndexOf(semanticResults, x))

\* Array.from(resultMap.values()): the keyword items, then the new semantic items
MapOrder(keywordResults, semanticResults) ==
  keywordResults \o SelectSeq(semanticResults, LAMBDA x : x \notin SeqToSet(keywordResults))

\* the place of x in a list sorted by b.score - a.score (the sort is stable)
InsertByMergedScore(sorted, x, K, S) ==
  LET k == Cardinality({i \in 1..Len(sorted) :
                          MergedScore(K, S, sorted[i]) >= MergedScore(K, S, x)})
  IN SubSeq(sorted, 1, k) \o <<x>> \o SubSeq(sorted, k + 1, Len(sorted))

RECURSIVE SortByMergedScore(_, _, _)
SortByMergedScore(entries, K, S) ==
  IF entries = <<>>
    THEN <<>>
    ELSE InsertByMergedScore(SortByMergedScore(SubSeq(entries, 1, Len(entries) - 1), K, S),
                             entries[Len(entries)], K, S)

\* slice(0, limit) for limit >= 0
Take(list, limit) == SubSeq(list, 1, IF limit < Len(list) THEN limit ELSE Len(list))

\* mergeResults(keywordResults, semanticResults, limit)
MergeResults(keywordResults, semanticResults, limit) ==
  Take(SortByMergedScore(MapOrder(keywordResults, semanticResults),
                         keywordResults, semanticResults), limit)

NoMerge == [called |-> FALSE, keywordResults |-> <<>>, semanticResults |-> <<>>,
            limit |-> 0, results |-> <<>>]

\* a call of mergeResults
Merge(K, S, limit) ==
  /\ ~mergeCall.called
  /\ mergeCall' = [called |-> TRUE, keywordResults |-> K, semanticResults |-> S,
                   limit |-> limit, results |-> MergeResults(K, S, limit)]
  /\ UNCHANGED <<searchResult, user_topics, wvars, svars, jvars, tvars, fvars, pvars, rvars>>

\* the ways the semantic branch ends with [] before or after the RPC
SemanticFailures == {"no api key", "embedding failed", "fetch error", "exception"}

\* what performSemanticSearchRaw finds: recent content with an embedding
RawLists == {<<>>, <<"D", "A">>, <<"C", "D", "B">>}

\* performSemanticSearchRaw(supabase, embedding, limit)
PerformSemanticSearchRaw(recent, ok, limit) ==
  IF ok THEN Take(recent, limit) ELSE <<>>

NoSearch == [phase |-> "none", status |-> 0, limit |-> 0,
             keyword |-> "pending", keywordResults |-> <<>>,
             semantic |-> "pending", semanticResults |-> <<>>, results |-> <<>>]

\* the handler receives a non-empty query and starts the two branches
Request(limit) ==
  /\ searchResult.phase = "none"
  /\ searchResult' = [searchResult EXCEPT !.phase = "running", !.limit = limit]
  /\ UNCHANGED <<mergeCall, user_topics, wvars, svars, jvars, tvars, fvars, pvars, rvars>>

\* performKeywordSearch: the first limit rows that match, [] on an error
PerformKeywordSearch(rows, ok) ==
  /\ searchResult.phase = "running"
  /\ searchResult.keyword = "pending"
  /\ searchResult' = [searchResult EXCEPT
                        !.keyword = IF ok THEN "ok" ELSE "error",
                        !.keywordResults = IF ok THEN Take(rows, searchResult.limit)
                                                 ELSE <<>>]
  /\ UNCHANGED <<mergeCall, user_topics, wvars, svars, jvars, tvars, fvars, pvars, rvars>>

\* performSemanticSearch: the RPC and the fetch of the full rows succeed
SemanticSearchOk(matches) ==
  /\ searchResult.phase = "running"
  /\ searchResult.semantic = "pending"
  /\ searchResult' = [searchResult EXCEPT
                        !.semantic = "ok",
                        !.semanticResults = Take(matches, searchResult.limit)]
  /\ UNCHANGED <<mergeCall, user_topics, wvars, svars, jvars, tvars, fvars, pvars, rvars>>

\* performSemanticSearch: no key, no embedding, a failed fetch or an exception
SemanticSearchFails(outcome) ==
  /\ searchResult.phase = "running"
  /\ searchResult.semantic = "pending"
  /\ searchResult' = [searchResult EXCEPT !.semantic = outcome, !.semanticResults = <<>>]
  /\ UNCHANGED <<mergeCall, user_topics, wvars, svars, jvars, tvars, fvars, pvars, rvars>>

\* performSemanticSearch: the RPC returns an error and the raw query is used
SemanticSearchRpcError(recent, rawOk) ==
  /\ searchResult.phase = "running"
  /\ searchResult.semantic = "pending"
  /\ searchResult' = [searchResult EXCEPT
                        !.semantic = "rpc error",
                        !.semanticResults =
                           PerformSemanticSearchRaw(recent, rawOk, searchResult.limit)]
  /\ UNCHANGED <<mergeCall, user_topics, wvars, svars, jvars, tvars, fvars, pvars, rvars>>

\* both promises have settled: mergeResults and the response
Respond ==
  /\ searchResult.phase = "running"
  /\ searchResult.keyword # "pending"
  /\ searchResult.semantic # "pending"
  /\ searchResult' = [searchResult EXCEPT
                        !.phase = "responded",
                        !.status = 200,
                        !.results = MergeResults(searchResult.keywordResults,
                                                 searchResult.semanticResults,
                                                 searchResult.limit)]
  /\ UNCHANGED <<mergeCall, user_topics, wvars, svars, jvars, tvars, fvars, pvars, rvars>>

SearchIdle ==
  /\ mergeCall = NoMerge
  /\ searchResult = NoSearch

(***************************************************************************)
(* The personalized-feed handler: the dismissed filter                     *)
(***************************************************************************)
\* the user_content rows the content query embeds for row c: the service-role
\* client reads the rows of every user
EmbeddedUserContent(c) == {v \in Users : user_content[v][c] # "unread"}

\* the items of the response of which userContent, the first embedded row,
\* is the row of user first[c]
FilterDismissed(first) ==
  {c \in InteractedContents :
     \/ EmbeddedUserContent(c) = {}
     \/ user_content[first[c]][c] # "dismissed"}

NoFeedResponse == [called |-> FALSE, user |-> "u1", dismissed |-> {}, items |-> {}]

\* a request of user u; the order of the embedded rows is the database's
PersonalizedFeed(u, first) ==
  /\ ~feedResponse.called
  /\ \A c \in InteractedContents :
       IF EmbeddedUserContent(c) = {} THEN first[c] = u
       ELSE first[c] \in EmbeddedUserContent(c)
  /\ feedResponse' = [called |-> TRUE, user |-> u,
                      dismissed |-> {c \in InteractedContents :
                                       user_content[u][c] = "dismissed"},
                      items |-> FilterDismissed(first)]
  /\ UNCHANGED <<user_topics, wvars, svars, jvars, tvars, fvars, pvars, hvars>>
  /\ UNCHANGED <<simCall, poolItem, detectRetries, unfollowed, setOutcome, mvars>>

(***************************************************************************)
(* The summarizeContent task and summarizeAllPending                       *)
(***************************************************************************)
\* the content rows the task is triggered for; row 4 has no raw_text
SumContents == {1, 2, 3, 4}
HasRawText(c) == c # 4

\* retry: { maxAttempts: 3 }
MAX_ATTEMPTS == 3

\* what generateEmbedding returns
SomeEmbedding == <<1, 0>>

SummarizeIdle ==
  /\ summaries = {}
  /\ sumPc = [c \in SumContents |-> "idle"]
  /\ attempts = [c \in SumContents |-> 0]

\* summarizeContent.trigger({ contentId }): a run is queued, its first attempt
Trigger(pcs, tries, ids) ==
  [pc |-> [c \in SumContents |-> IF c \in ids THEN "queued" ELSE pcs[c]],
   attempts |-> [c \in SumContents |-> IF c \in ids THEN 1 ELSE tries[c]]]

\* an attempt throws: the run is tried again from its start until maxAttempts
AttemptFailed(c) ==
  IF attempts[c] < MAX_ATTEMPTS
    THEN /\ sumPc' = [sumPc EXCEPT ![c] = "queued"]
         /\ attempts' = [attempts EXCEPT ![c] = @ + 1]
    ELSE /\ sumPc' = [sumPc EXCEPT ![c] = "idle"]
         /\ attempts' = [attempts EXCEPT ![c] = 0]

\* the run returns
RunEnded(c) ==
  /\ sumPc' = [sumPc EXCEPT ![c] = "idle"]
  /\ attempts' = [attempts EXCEPT ![c] = 0]

\* a crawler, or an operator, triggers the task for one row that has no run
TriggerSummarize(c) ==
  /\ sumPc[c] = "idle"
  /\ sumPc' = Trigger(sumPc, attempts, {c}).pc
  /\ attempts' = Trigger(sumPc, attempts, {c}).attempts
  /\ UNCHANGED <<summaries, user_topics, wvars, svars, jvars, tvars, fvars, pvars, hvars>>
  /\ UNCHANGED <<simCall, poolItem, detectRetries, uvars>>

\* summarizeAllPending: the rows with a null embedding and a raw_text are
\* triggered; a failed query throws and triggers nothing
SummarizeAllPending(ok) ==
  LET pendingContent == {c \in SumContents :
                           /\ embedding[c] = NullEmbedding
                           /\ HasRawText(c)
                           /\ sumPc[c] = "idle"}
  IN /\ pendingContent # {}
     /\ IF ok
          THEN /\ sumPc' = Trigger(sumPc, attempts, pendingContent).pc
               /\ attempts' = Trigger(sumPc, attempts, pendingContent).attempts
          ELSE UNCHANGED <<sumPc, attempts>>
     /\ UNCHANGED <<summaries, user_topics, wvars, svars, jvars, tvars, fvars, pvars, hvars>>
     /\ UNCHANGED <<simCall, poolItem, detectRetries, uvars>>

SummaryOutcomes == {"ok", "content not found", "summary failed", "insert failed"}

\* summarizeContent up to the insert of the summary
SummarizeInsert(c, outcome) ==
  /\ sumPc[c] = "queued"
  /\ IF outcome = "content not found"
       THEN AttemptFailed(c) /\ UNCHANGED summaries
     ELSE IF c \in summaries
       THEN \* already summarized: { skipped: true }
            outcome = "ok" /\ RunEnded(c) /\ UNCHANGED summaries
     ELSE IF ~HasRawText(c)
       THEN outcome = "ok" /\ RunEnded(c) /\ UNCHANGED summaries
     ELSE IF outcome = "ok"
       THEN /\ summaries' = summaries \cup {c}
            /\ sumPc' = [sumPc EXCEPT ![c] = "embedding"]
            /\ UNCHANGED attempts
       ELSE AttemptFailed(c) /\ UNCHANGED summaries
  /\ UNCHANGED <<user_topics, wvars, svars, jvars, tvars, fvars, pvars, hvars>>
  /\ UNCHANGED <<simCall, poolItem, detectRetries, uvars>>

EmbeddingOutcomes == {"ok", "embedding failed", "update failed"}

\* summarizeContent from generateEmbedding on: a failed update is only logged
SummarizeEmbed(c, outcome) ==
  /\ sumPc[c] = "embedding"
  /\ CASE outcome = "ok" ->
            /\ embedding' = [embedding EXCEPT ![c] = SomeEmbedding]
            /\ RunEnded(c)
       [] outcome = "embedding failed" ->
            /\ AttemptFailed(c)
            /\ UNCHANGED embedding
       [] OTHER ->
            /\ RunEnded(c)
            /\ UNCHANGED embedding
  /\ UNCHANGED <<themes, dpc, dtopic, themeCandidates, clustered, cidx,
                 totalThemesCreated, topicsProcessed, topicsWithThemes, themesFailed,
                 topicOutcome, storeFailedAt>>
  /\ UNCHANGED <<summaries, user_topics, wvars, svars, jvars, fvars, pvars, hvars>>
  /\ UNCHANGED <<simCall, poolItem, detectRetries, uvars>>

(***************************************************************************)
(* cosineSimilarity, called on its own                                     *)
(***************************************************************************)
\* the components and the longest length of the vectors given to it
Components == {0 - 1, 0, 2}

RECURSIVE VectorsOfLen(_)
VectorsOfLen(n) ==
  IF n = 0 THEN {<<>>}
  ELSE {Append(v, x) : v \in VectorsOfLen(n - 1), x \in Components}

Vectors == UNION {VectorsOfLen(n) : n \in 0..MaxVecLen}

NoSimilarityCall == [called |-> FALSE, a |-> <<>>, b |-> <<>>, result |-> [dot |-> 0, sq |-> 1]]

\* cosineSimilarity(a, b)
CallCosineSimilarity(a, b) ==
  /\ ~simCall.called
  /\ simCall' = [called |-> TRUE, a |-> a, b |-> b, result |-> CosineSimilarity(a, b)]
  /\ UNCHANGED <<user_topics, wvars, svars, jvars, tvars, fvars, pvars, hvars>>
  /\ UNCHANGED <<poolItem, detectRetries, uvars, mvars>>

(***************************************************************************)
(* The digest pool, scored by generateUserDigest and by the feed scorer    *)
(***************************************************************************)
\* now.getTime() - 24 * 60 * 60 * 1000
TwentyFourHoursAgo(nowMs) == nowMs - 24 * 60 * 60 * 1000

\* .gte("published_at", twentyFourHoursAgo.toISOString())
InDigestWindow(publishedAt, nowMs) == publishedAt >= TwentyFourHoursAgo(nowMs)

NoPoolItem == [fetched |-> FALSE, content |-> 0, at |-> 0, score |-> 0,
               base_score |-> 0, recency_boost |-> 0]

\* generateUserDigest fetches row c, published at PublishedAt, and scores it;
\* the feed scorer's base score and recency boost for the row at that instant
ScorePoolItem(c) ==
  /\ ~poolItem.fetched
  /\ InDigestWindow(PublishedAt, Instants[clock])
  /\ poolItem' = [fetched |-> TRUE, content |-> c, at |-> clock,
                  score |-> ScoreItem(c).score,
                  base_score |-> BaseScore(QualityScore(ContentSource(c))),
                  recency_boost |-> CalculateRecencyBoost(PublishedAt, Instants[clock])]
  /\ UNCHANGED <<user_topics, wvars, svars, jvars, tvars, fvars, pvars, hvars>>
  /\ UNCHANGED <<simCall, detectRetries, uvars, mvars>>

(***************************************************************************)
(* Specifications                                                          *)
(***************************************************************************)
SetTopicsIdle ==
  /\ setPc = "idle"
  /\ setCall = [user |-> "u1", topicIds |-> {}]

RestIdle ==
  /\ simCall = NoSimilarityCall
  /\ poolItem = NoPoolItem
  /\ detectRetries = 0
  /\ feedResponse = NoFeedResponse
  /\ unfollowed = NoUnfollow
  /\ setOutcome = NoSetOutcome
  /\ SummarizeIdle

SelectIdle ==
  /\ fresh = {}
  /\ digestResult = NoResult

\* interactions, follows and unfollows
Init ==
  /\ user_topics \in InitRows
  /\ WeightsIdle
  /\ SelectIdle
  /\ JobIdle
  /\ SetTopicsIdle
  /\ RestIdle
  /\ FeedIdle
  /\ SearchIdle
  /\ embedding = NoEmbeddings
  /\ ThemesIdle

Next == NextWeights

Spec == Init /\ [][Next]_vars

\* generateUserDigest over every content table
InitSelect ==
  /\ user_topics \in DigestFollows
  /\ fresh \in SUBSET Contents
  /\ digestResult = NoResult
  /\ WeightsIdle
  /\ JobIdle
  /\ SetTopicsIdle
  /\ RestIdle
  /\ FeedIdle
  /\ SearchIdle
  /\ embedding = NoEmbeddings
  /\ ThemesIdle

NextSelect == \E u \in Users : CallGenerateUserDigest(u)

SpecSelect == InitSelect /\ [][NextSelect]_vars

\* overlapping runs of the sendDigests job
InitDigest ==
  /\ user_topics \in DigestFollows
  /\ fresh \in JobFresh
  /\ digestResult = NoResult
  /\ WeightsIdle
  /\ JobIdle
  /\ SetTopicsIdle
  /\ RestIdle
  /\ FeedIdle
  /\ SearchIdle
  /\ embedding = NoEmbeddings
  /\ ThemesIdle

NextDigest ==
  \/ \E r \in Runs, ok \in BOOLEAN : StartRun(r, ok)
  \/ \E r \in Runs, ok \in BOOLEAN : CheckExisting(r, ok)
  \/ \E r \in Runs, ok \in BOOLEAN : Generate(r, ok)
  \/ \E r \in Runs, ok \in BOOLEAN : StoreDigest(r, ok)
  \/ Tick

SpecDigest == InitDigest /\ [][NextDigest]_vars

\* the detectThemes job over every table of embeddings
InitThemes ==
  /\ user_topics = [u \in Users |-> [t \in Topics |-> NoRow]]
  /\ embedding \in {[c \in Contents |-> IF c \in ThemeContents THEN e[c] ELSE NullEmbedding] :
                      e \in [ThemeContents -> Embeddings \cup {NullEmbedding}]}
  /\ ThemesIdle
  /\ WeightsIdle
  /\ SelectIdle
  /\ JobIdle
  /\ SetTopicsIdle
  /\ RestIdle
  /\ FeedIdle
  /\ SearchIdle

NextThemes ==
  \/ \E ok \in BOOLEAN : StartDetect(ok)
  \/ \E ok \in BOOLEAN, titleFails \in TitleFailures : DetectTopic(ok, titleFails)
  \/ \E ok \in BOOLEAN : StoreTheme(ok)

SpecThemes == InitThemes /\ [][NextThemes]_vars

\* six directions no two of which have a similarity of 0.8
CapDirections == <<<<1, 0>>, <<1, 2>>, <<0 - 1, 2>>, <<0 - 1, 0>>, <<0 - 1, 0 - 2>>, <<1, 0 - 2>>>>

\* the rows of the sources of t1, three rows of three sources per direction
CapGroups == <<{1, 2, 5}, {7, 8, 9}, {11, 13, 14}, {15, 17, 19}, {20, 21, 23}, {25, 26, 27}>>

\* the rows whose embedding varies: one of the oldest group and two newer rows
CapFloating == {1, 29, 31}

CapEmbeddings ==
  {[c \in 1..NCapContent |->
      IF c \in CapFloating THEN f[c]
      ELSE IF \E g \in 1..Len(CapGroups) : c \in CapGroups[g]
        THEN CapDirections[CHOOSE g \in 1..Len(CapGroups) : c \in CapGroups[g]]
        ELSE NullEmbedding] :
     f \in [CapFloating -> SeqToSet(CapDirections) \cup {NullEmbedding}]}

\* the detectThemes job when a topic has up to six clusters of three sources
InitCap ==
  /\ user_topics = [u \in Users |-> [t \in Topics |-> NoRow]]
  /\ embedding \in CapEmbeddings
  /\ ThemesIdle
  /\ WeightsIdle
  /\ SelectIdle
  /\ JobIdle
  /\ SetTopicsIdle
  /\ RestIdle
  /\ FeedIdle
  /\ SearchIdle

SpecCap == InitCap /\ [][NextThemes]_vars

\* every writer of user_topics: the weight update, follow, unfollow and
\* useSetUserTopics, for interactions of u1 on content 1
InitTopics ==
  /\ user_topics \in InitRows
  /\ WeightsIdle
  /\ SelectIdle
  /\ JobIdle
  /\ SetTopicsIdle
  /\ RestIdle
  /\ FeedIdle
  /\ SearchIdle
  /\ embedding = NoEmbeddings
  /\ ThemesIdle

NextTopics ==
  \/ \E p \in Procs, i \in Interactions, ok \in BOOLEAN : Mutate(p, "u1", 1, i, ok)
  \/ \E p \in Procs, found \in BOOLEAN, ok \in BOOLEAN : FetchSourceTopics(p, found, ok)
  \/ \E p \in Procs, ok \in BOOLEAN : ReadWeights(p, ok)
  \/ \E p \in Procs, ok \in BOOLEAN : UpsertWeights(p, ok)
  \/ \E u \in Users, t \in Topics : Unfollow(u, t)
  \/ \E u \in Users, t \in Topics : Follow(u, t)
  \/ \E u \in Users, ids \in SUBSET Topics, ok \in BOOLEAN : SetTopicsDelete(u, ids, ok)
  \/ \E ok \in BOOLEAN : SetTopicsInsert(ok)

SpecTopics == InitTopics /\ [][NextTopics]_vars

\* the scorer over every quality, relevance and weight at every instant
InitFeed ==
  /\ user_topics = [u \in Users |-> [t \in Topics |-> NoRow]]
  /\ FeedIdle
  /\ SearchIdle
  /\ WeightsIdle
  /\ SelectIdle
  /\ JobIdle
  /\ SetTopicsIdle
  /\ RestIdle
  /\ embedding = NoEmbeddings
  /\ ThemesIdle

NextFeed ==
  \/ \E quality \in Qualities,
        relevance \in [FeedTopics -> Relevances \cup {NoRel}],
        weights \in [FeedTopics -> FeedWeights \cup {NoRow}] :
       ScoreItemForFeed(quality, relevance, weights)
  \/ ScoreItemAgain
  \/ AdvanceClock

SpecFeed == InitFeed /\ [][NextFeed]_vars

\* the state in which nothing but a search happens
Quiet ==
  /\ user_topics = [u \in Users |-> [t \in Topics |-> NoRow]]
  /\ FeedIdle
  /\ WeightsIdle
  /\ SelectIdle
  /\ JobIdle
  /\ SetTopicsIdle
  /\ RestIdle
  /\ embedding = NoEmbeddings
  /\ ThemesIdle

\* mergeResults on every pair of lists and every limit
InitMerge ==
  /\ Quiet
  /\ mergeCall = NoMerge
  /\ searchResult = NoSearch

NextMerge ==
  /\ ~mergeCall.called
  /\ \E K \in ResultLists, S \in ResultLists, limit \in Limits : Merge(K, S, limit)

SpecMerge == InitMerge /\ [][NextMerge]_vars

\* the search handler with every outcome of its two branches
NextSearch ==
  \/ \E limit \in Limits : Request(limit)
  \/ \E rows \in ResultLists, ok \in BOOLEAN : PerformKeywordSearch(rows, ok)
  \/ \E matches \in ResultLists : SemanticSearchOk(matches)
  \/ \E outcome \in SemanticFailures : SemanticSearchFails(outcome)
  \/ \E recent \in RawLists, rawOk \in BOOLEAN : SemanticSearchRpcError(recent, rawOk)
  \/ Respond

SpecSearch == InitMerge /\ [][NextSearch]_vars

\* requests for the personalized feed among the interactions of two users
NextFeedFilter ==
  \/ NextWeights
  \/ /\ ~feedResponse.called
     /\ \E u \in Users, first \in [InteractedContents -> Users] : PersonalizedFeed(u, first)

SpecFeedFilter == Init /\ [][NextFeedFilter]_vars

\* useSetUserTopics on its own
NextSetTopics ==
  \/ \E u \in Users, ids \in SUBSET Topics, ok \in BOOLEAN : SetTopicsDelete(u, ids, ok)
  \/ \E ok \in BOOLEAN : SetTopicsInsert(ok)

SpecSetTopics == InitTopics /\ [][NextSetTopics]_vars

\* a run of summarizeContent for row c
SummarizeRun(c) ==
  \/ \E outcome \in SummaryOutcomes : SummarizeInsert(c, outcome)
  \/ \E outcome \in EmbeddingOutcomes : SummarizeEmbed(c, outcome)

NextSummarize ==
  \/ \E c \in SumContents : TriggerSummarize(c)
  \/ \E ok \in BOOLEAN : SummarizeAllPending(ok)
  \/ \E c \in SumContents, outcome \in SummaryOutcomes : SummarizeInsert(c, outcome)
  \/ \E c \in SumContents, outcome \in EmbeddingOutcomes : SummarizeEmbed(c, outcome)

\* summarizeAllPending keeps being run and succeeds again and again, a queued
\* run is executed, and the two collaborators succeed again and again
SpecSummarize ==
  /\ Init
  /\ [][NextSummarize]_vars
  /\ SF_vars(SummarizeAllPending(TRUE))
  /\ \A c \in SumContents : WF_vars(SummarizeRun(c))
  /\ \A c \in SumContents : SF_vars(SummarizeInsert(c, "ok"))
  /\ \A c \in SumContents : SF_vars(SummarizeEmbed(c, "ok"))

\* the digest pool at every instant
NextWindow ==
  \/ \E c \in Contents : ScorePoolItem(c)
  \/ AdvanceClock

SpecWindow == InitFeed /\ [][NextWindow]_vars

\* cosineSimilarity on every pair of vectors
NextCosine ==
  /\ ~simCall.called
  /\ \E a \in Vectors, b \in Vectors : CallCosineSimilarity(a, b)

SpecCosine == InitMerge /\ [][NextCosine]_vars

\* one table of embeddings with two clusters of three sources each for t1
TwoThemeEmbeddings ==
  [c \in Contents |-> IF c \in {7, 8, 9} THEN <<1, 0>>
                      ELSE IF c \in {1, 2, 5} THEN <<1, 1>>
                      ELSE NullEmbedding]

\* a step of run r of sendDigests after it has its list of users
RunStep(r) ==
  \E ok \in BOOLEAN : CheckExisting(r, ok) \/ Generate(r, ok) \/ StoreDigest(r, ok)

\* a step of detectThemes after it has its list of topics
ThemeStep ==
  \/ \E ok \in BOOLEAN, titleFails \in TitleFailures : DetectTopic(ok, titleFails)
  \/ \E ok \in BOOLEAN : StoreTheme(ok)

\* both batch sweeps side by side; every await of a started job settles
InitSweeps ==
  /\ user_topics = [u \in Users |-> [t \in Topics |->
                       IF u = "u2" /\ t = "t1" THEN DEFAULT_WEIGHT ELSE NoRow]]
  /\ fresh = {1, 2, 8}
  /\ digestResult = NoResult
  /\ embedding = TwoThemeEmbeddings
  /\ ThemesIdle
  /\ WeightsIdle
  /\ JobIdle
  /\ SetTopicsIdle
  /\ RestIdle
  /\ FeedIdle
  /\ SearchIdle

NextSweeps ==
  \/ \E r \in Runs, ok \in BOOLEAN : StartRun(r, ok)
  \/ \E r \in Runs : RunStep(r)
  \/ \E ok \in BOOLEAN : StartDetect(ok)
  \/ ThemeStep

SpecSweeps ==
  /\ InitSweeps
  /\ [][NextSweeps]_vars
  /\ \A r \in Runs : WF_vars(RunStep(r))
  /\ WF_vars(ThemeStep)

\* both batch sweeps, the detectThemes job run again when it has ended
NextRetry ==
  \/ \E r \in Runs, ok \in BOOLEAN : StartRun(r, ok)
  \/ \E r \in Runs : RunStep(r)
  \/ \E ok \in BOOLEAN : StartDetect(ok)
  \/ ThemeStep
  \/ RetryDetect

SpecRetry == InitSweeps /\ [][NextRetry]_vars

(***************************************************************************)
(* Properties of the Topic Weight Learner                                  *)
(***************************************************************************)
Adjustment(p) == WEIGHT_ADJUSTMENTS(call[p].interaction)

\* the step in which process p returns from its batch upsert
IsUpsertStep(p) == pc[p] = "upsert" /\ pc'[p] = "done"

\* the step in which process p reads the user's weights and builds its batch
IsReadStep(p) == pc[p] = "weights" /\ pc'[p] # "weights"

\* the (user, topic) keys of user_topics
Keys(rows) == {<<u, t>> \in Users \X Topics : rows[u][t] # NoRow}

\* clamp(w + d, 0.1, 5.0), written out by cases
Clamp(w) == IF w < 10 THEN 10 ELSE IF w > 500 THEN 500 ELSE w

\* C1: every stored UserTopic weight lies in [0.1, 5.0] after any sequence of
\* read/save/dismiss interactions and follow/unfollow operations.
C1_WeightInBounds ==
  \A u \in Users, t \in Topics :
    user_topics[u][t] # NoRow => (10 <= user_topics[u][t] /\ user_topics[u][t] <= 500)

\* a save that read a weight already at the ceiling has written, and the row is
\* still at 5.0
C1_Witness ==
  \E p \in Procs, t \in Topics :
    /\ pc[p] = "done" /\ ~upsertError[p]
    /\ call[p].interaction = "save"
    /\ existingMap[p][t] = 500
    /\ upsertRecords[p][t] = 500
    /\ user_topics[call[p].user][t] = 500

\* C2: the upsert of a dismiss leaves the set of (user, topic) keys of
\* user_topics unchanged.
C2_DismissKeepsKeys ==
  [][\A p \in Procs :
       (IsUpsertStep(p) /\ call[p].interaction = "dismiss")
         => Keys(user_topics') = Keys(user_topics)]_vars

\* C3: for each topic of the content's source, the batch holds clamp(w + d) when
\* the user has a row with weight w, 1.0 + d when the user has no row and d > 0,
\* and nothing otherwise; a successful upsert writes exactly the batch.
C3_WrittenWeight ==
  [][\A p \in Procs :
       /\ IsReadStep(p) =>
            \A t \in SeqToSet(topicIds[p]) :
              LET w == user_topics[call[p].user][t]
                  d == Adjustment(p)
              IN upsertRecords'[p][t] =
                   IF w # NoRow THEN Clamp(w + d)
                   ELSE IF d > 0 THEN 100 + d ELSE NoRow
       /\ (IsUpsertStep(p) /\ ~upsertError'[p]) =>
            \A t \in Topics :
              upsertRecords[p][t] # NoRow
                => user_topics'[call[p].user][t] = upsertRecords[p][t]]_vars

\* the weight an update writes, as a function of the weight it read alone
FromSnapshot(w, d) == IF w = NoRow THEN 100 + d ELSE Clamp(w + d)

\* C4: an upsert that succeeds stores the weight computed from the caller's own
\* earlier read, whatever has been written to the row since (last write wins).
C4_LastWriteWins ==
  [][\A p \in Procs, t \in Topics :
       (IsUpsertStep(p) /\ ~upsertError'[p] /\ upsertRecords[p][t] # NoRow)
         => user_topics'[call[p].user][t] = FromSnapshot(existingMap[p][t], Adjustment(p))]_vars

\* two updates of one user read the same weight of a shared topic, both upserts
\* succeeded, and the stored weight carries one adjustment only
C4_Witness ==
  \E p, q \in Procs, t \in Topics :
    /\ p # q
    /\ pc[p] = "done" /\ pc[q] = "done"
    /\ ~upsertError[p] /\ ~upsertError[q]
    /\ call[p].user = call[q].user
    /\ existingMap[p][t] # NoRow
    /\ existingMap[p][t] = existingMap[q][t]
    /\ upsertRecords[p][t] # NoRow /\ upsertRecords[q][t] # NoRow
    /\ upsertRecords[q][t] # existingMap[q][t]
    /\ user_topics[call[p].user][t] = upsertRecords[p][t]
    /\ user_topics[call[p].user][t] #
         Clamp(Clamp(existingMap[p][t] + Adjustment(q)) + Adjustment(p))
    /\ user_topics[call[p].user][t] #
         Clamp(Clamp(existingMap[p][t] + Adjustment(p)) + Adjustment(q))

\* a step of the weight update of process p
IsUpdateStep(p) == pc[p] \in {"content", "weights", "upsert"} /\ pc'[p] # pc[p]

\* C12: once the user_content upsert of a save, dismiss or mark-as-read has
\* succeeded the mutation stays successful and the recorded status stays,
\* whatever happens in updateTopicWeightsForInteraction.
C12_MutationSucceeds ==
  [][\A p \in Procs :
       IsUpdateStep(p) =>
         /\ mutationResult[p] = "success"
         /\ mutationResult'[p] = "success"
         /\ user_content' = user_content]_vars

\* a call whose content read, weight read or upsert failed ended with the
\* mutation successful and the status recorded
C12_Witness ==
  \E p \in Procs :
    /\ pc[p] = "done"
    /\ mutationResult[p] = "success"
    /\ upsertError[p]
    /\ user_content[call[p].user][call[p].content] = StatusOf(call[p].interaction)

\* the keys whose row a step creates, deletes or changes
Changed == {k \in Users \X Topics : user_topics'[k[1]][k[2]] # user_topics[k[1]][k[2]]}

Created == {k \in Changed : user_topics[k[1]][k[2]] = NoRow}

Deleted == {k \in Changed : user_topics'[k[1]][k[2]] = NoRow}

\* C13 as stated: every step that writes user_topics is the upsert of a weight
\* update, and a row comes into existence only through a read or a save.
C13_OnlyLearnerWrites ==
  [][\A k \in Changed :
       \E p \in Procs :
         /\ IsUpsertStep(p)
         /\ call[p].user = k[1]
         /\ k \in Created => Adjustment(p) > 0]_vars

\* C13 as amended: a step that writes user_topics is either the upsert of a
\* weight update, which writes rows of its user for topics of its batch and
\* creates a row only for a read or a save or for a row it had read, or it is
\* a follow, an unfollow or useSetUserTopics, which only delete rows of one
\* user or create rows of one user at weight 1.0.
C13_WritersOfUserTopics ==
  [][Changed # {} =>
       \/ \E p \in Procs :
            /\ IsUpsertStep(p)
            /\ \A k \in Changed :
                 /\ k[1] = call[p].user
                 /\ k[2] \in SeqToSet(topicIds[p])
                 /\ k \in Created => Adjustment(p) > 0 \/ existingMap[p][k[2]] # NoRow
       \/ /\ \A p \in Procs : ~IsUpsertStep(p)
          /\ \E u \in Users : \A k \in Changed : k[1] = u
          /\ \A k \in Changed :
               \/ k \in Deleted
               \/ k \in Created /\ user_topics'[k[1]][k[2]] = DEFAULT_WEIGHT]_vars

\* u1 has a row for t3, which no source maps to, next to a row whose weight a
\* weight update wrote
C13_Witness ==
  /\ user_topics["u1"]["t3"] = DEFAULT_WEIGHT
  /\ \E p \in Procs, t \in Topics :
       /\ pc[p] = "done"
       /\ upsertRecords[p][t] # NoRow
       /\ ~upsertError[p]
       /\ user_topics[call[p].user][t] = upsertRecords[p][t]
       /\ upsertRecords[p][t] # DEFAULT_WEIGHT

\* the topics mapped to the source of the content of p's call
MappedTopics(p) == SeqToSet(SourceTopics(ContentSource(call[p].content)))

\* C14: one interaction by u on c writes exactly the rows (u, t) of the topics
\* t mapped to c's source, a dismiss only those that exist; rows of other users
\* and of other topics are unchanged, and nothing is written when the source
\* has no topic or the content is not found.
C14_WritesMappedRows ==
  [][\A p \in Procs :
       LET u == call[p].user
       IN /\ IsReadStep(p) =>
               \A t \in Topics :
                 upsertRecords'[p][t] # NoRow
                   <=> /\ t \in MappedTopics(p)
                       /\ user_topics[u][t] # NoRow \/ Adjustment(p) > 0
          /\ IsUpsertStep(p) =>
               /\ MappedTopics(p) # {}
               /\ \A k \in Changed : k[1] = u /\ k[2] \in MappedTopics(p)
               /\ ~upsertError'[p] =>
                    \A t \in Topics :
                      upsertRecords[p][t] # NoRow => user_topics'[u][t] = upsertRecords[p][t]
          /\ (pc[p] = "content" /\ pc'[p] = "done") => user_topics' = user_topics]_vars

(***************************************************************************)
(* Properties of the Digest Assembler                                      *)
(***************************************************************************)
\* the elements of a list of ids
IdsOf(s) == {s[i] : i \in 1..Len(s)}

\* C5: at most one Digest row per (user_id, date) after every step of every
\* interleaving of job runs, and a row once stored is never changed or removed.
C5_OneDigestPerUserDate ==
  [][/\ \A d \in digests : d \in digests'
     /\ \A d1, d2 \in digests' :
          (d1.user_id = d2.user_id /\ d1.date = d2.date) => d1 = d2]_vars

\* a run has passed the hasDigestForToday check and is about to store, while a
\* digest of the same user for the current date is already there
C5_Witness ==
  \E r \in Runs :
    /\ rpc[r] = "store"
    /\ DigestsFor(DigestUsers[ridx[r]], today) # {}

\* C6: generateUserDigest returns at most 10 ids, at most 2 of any one source,
\* and none for a user without followed topics.
C6_DigestCaps ==
  digestResult.user # "none" =>
    /\ Len(digestResult.contentIds) <= 10
    /\ \A s \in Sources :
         Cardinality({i \in 1..Len(digestResult.contentIds) :
                        ContentSource(digestResult.contentIds[i]) = s}) <= 2
    /\ (\A t \in Topics : user_topics[digestResult.user][t] = NoRow)
         => digestResult.contentIds = <<>>

\* a digest of 10 items for which a third item of some source was passed over
C6_Witness ==
  /\ Len(digestResult.contentIds) = 10
  /\ \E i \in 1..digestResult.visited :
       digestResult.scored[i] \notin IdsOf(digestResult.contentIds)

\* the ids selected among the first i candidates
SelectedUpTo(i) ==
  {digestResult.scored[j] : j \in 1..i} \cap IdsOf(digestResult.contentIds)

\* a cap is hit at position i: 10 items are selected, or 2 of one source
CapHitAt(i) ==
  \/ Cardinality(SelectedUpTo(i)) >= 10
  \/ \E s \in Sources :
       Cardinality({c \in SelectedUpTo(i) : ContentSource(c) = s}) >= 2

\* C7 as stated: no candidate ranked after the first position at which either
\* cap is hit is selected.
C7_StopsAtEitherCap ==
  \A i, j \in 1..Len(digestResult.scored) :
    (CapHitAt(i) /\ i < j) => digestResult.scored[j] \notin IdsOf(digestResult.contentIds)

\* C7 as amended: the walk ends at the candidate that becomes the 10th item and
\* otherwise runs to the end of the list; a candidate the walk reaches is
\* selected exactly when fewer than 2 candidates of its source rank before it.
C7_StopsAtTenOnly ==
  digestResult.reason = "selected" =>
    LET ids == digestResult.contentIds
        scored == digestResult.scored
        v == digestResult.visited
    IN /\ v < Len(scored) => Len(ids) = 10
       /\ Len(ids) = 10 => scored[v] = ids[10]
       /\ \A i \in 1..Len(scored) :
            scored[i] \in IdsOf(ids)
              <=> /\ i <= v
                  /\ Cardinality({j \in 1..(i - 1) :
                         ContentSource(scored[j]) = ContentSource(scored[i])}) < 2

\* the walk passed over a third item of a source, went on selecting, and ended
\* at the 10th item with candidates left
C7_Witness ==
  /\ Len(digestResult.contentIds) = 10
  /\ digestResult.visited < Len(digestResult.scored)
  /\ \E i, j \in 1..digestResult.visited :
       /\ i < j
       /\ digestResult.scored[i] \notin IdsOf(digestResult.contentIds)
       /\ digestResult.scored[j] \in IdsOf(digestResult.contentIds)

\* the step in which run r returns from generateUserDigest
IsGenerateStep(r) == rpc[r] = "generate" /\ rpc'[r] # "generate"

\* C8: no digest row has an empty content_ids list, and a run whose
\* generateUserDigest returns an empty list counts the user as skipped and does
\* not go on to storeDigest.
C8_NoEmptyDigest ==
  [][/\ \A d \in digests' : Len(d.content_ids) > 0
     /\ \A r \in Runs :
          (/\ IsGenerateStep(r)
           /\ failed'[r] = failed[r]
           /\ GenerateUserDigest(DigestUsers[ridx[r]]).contentIds = <<>>)
            => /\ skipped'[r] = skipped[r] + 1
               /\ rpc'[r] # "store"
               /\ digests' = digests]_vars

\* a run has skipped u1, who follows only a topic no source maps to, and u1 has
\* no digest
C8_Witness ==
  \E r \in Runs :
    /\ ridx[r] = 2
    /\ lastOutcome[r] = "no content"
    /\ skipped[r] >= 1
    /\ GenerateUserDigest("u1").reason = "no sources"
    /\ \A d \in digests : d.user_id # "u1"

(***************************************************************************)
(* Properties of the Theme Clusterer                                       *)
(***************************************************************************)
\* the topic whose candidates the job is storing
StoringTopic(t) == dpc = "store" /\ DetectTopics[dtopic] = t

\* C9: every candidate detectThemesForTopic returns has at least 2 member ids
\* spanning at least 3 distinct sources, and a topic with 2 or fewer embedded
\* items in the window gets no candidate.
C9_CandidateShape ==
  /\ \A i \in 1..Len(themeCandidates) :
       /\ Len(themeCandidates[i].contentIds) >= 2
       /\ Cardinality({ContentSource(c) : c \in IdsOf(themeCandidates[i].contentIds)}) >= 3
  /\ \A t \in Topics :
       Len(EmbeddedContent(t)) <= 2 =>
         /\ ~StoringTopic(t)
         /\ topicOutcome[t] \in {"pending", "no themes", "detect failed"}

\* a candidate of exactly 3 sources was returned while two similar items of the
\* same topic, a cluster of too few sources, are in no candidate
C9_Witness ==
  /\ \E i \in 1..Len(themeCandidates) :
       Cardinality({ContentSource(c) : c \in IdsOf(themeCandidates[i].contentIds)}) = 3
  /\ \E t \in Topics :
       /\ StoringTopic(t)
       /\ \E a, b \in IdsOf(EmbeddedContent(t)) :
            /\ a # b
            /\ AtLeastThreshold(CosineSimilarity(embedding[a], embedding[b]))
            /\ \A i \in 1..Len(themeCandidates) :
                 {a, b} \cap IdsOf(themeCandidates[i].contentIds) = {}

\* C10 as stated: when the job has returned, every candidate of a topic whose
\* detection succeeded is stored, except the one whose own storeTheme failed.
C10_OtherCandidatesStored ==
  dpc = "done" =>
    \A t \in Topics :
      topicOutcome[t] \in {"stored", "store failed"} =>
        LET found == DetectThemesForTopic(t, {})
        IN \A i \in 1..Len(found) :
             i # storeFailedAt[t] =>
               \E row \in themes :
                 row.topic_id = t /\ row.content_ids = found[i].contentIds

(***************************************************************************)
(* Properties of the Feed Scorer                                           *)
(***************************************************************************)
\* the evaluations made so far
Evaluations == {e \in {feedFirst, feedSecond} : e.at # 0}

\* the age of the item at an evaluation, in milliseconds
AgeAt(e) == Instants[e.at] - PublishedAt

SharedTopics(e) == {t \in FeedTopics : e.relevance[t] # NoRel /\ e.weights[t] # NoRow}

SumR(e) ==
  (IF "t1" \in SharedTopics(e) THEN e.relevance["t1"] ELSE 0)
    + (IF "t2" \in SharedTopics(e) THEN e.relevance["t2"] ELSE 0)

SumWR(e) ==
  (IF "t1" \in SharedTopics(e) THEN e.weights["t1"] * e.relevance["t1"] ELSE 0)
    + (IF "t2" \in SharedTopics(e) THEN e.weights["t2"] * e.relevance["t2"] ELSE 0)

\* C16: calculateTopicMatch is 0 when a list is empty, no topic is shared or the
\* shared relevances sum to 0, and min(50, (sum of relevance * weight / sum of
\* relevance) * 50) otherwise; it lies in [0, 50].
C16_TopicMatch ==
  \A e \in Evaluations :
    LET tm == e.score_breakdown.topic_match
    IN /\ tm.den > 0
       /\ 0 <= tm.num
       /\ tm.num <= 50 * tm.den
       /\ IF SharedTopics(e) = {} \/ SumR(e) = 0
            THEN tm.num = 0
            ELSE IF SumWR(e) >= 100 * SumR(e)
              THEN tm.num = 50 * tm.den
              ELSE tm.num * 2 * SumR(e) = SumWR(e) * tm.den

\* two shared topics gave a topic match strictly between 0 and 50
C16_Witness ==
  /\ SharedTopics(feedFirst) = FeedTopics
  /\ feedFirst.score_breakdown.topic_match.num > 0
  /\ feedFirst.score_breakdown.topic_match.num
       < 50 * feedFirst.score_breakdown.topic_match.den
  /\ feedFirst.weights["t1"] # feedFirst.weights["t2"]

\* C17: calculateRecencyBoost is 20 for an age strictly under 24 hours, 10 from
\* 24 hours to strictly under 7 days, and 0 from 7 days on.
C17_RecencyStep ==
  \A e \in Evaluations :
    e.score_breakdown.recency_boost =
      IF AgeAt(e) < 86400000 THEN 20
      ELSE IF AgeAt(e) < 604800000 THEN 10
      ELSE 0

\* the item was scored at exactly 24 hours (10) and again at exactly 7 days (0)
C17_Witness ==
  /\ feedFirst.at # 0
  /\ feedSecond.at # 0
  /\ AgeAt(feedFirst) = 86400000
  /\ feedFirst.score_breakdown.recency_boost = 10
  /\ AgeAt(feedSecond) = 604800000
  /\ feedSecond.score_breakdown.recency_boost = 0

\* the second evaluation was made on the inputs of the first
SameInputs ==
  /\ feedFirst.at # 0
  /\ feedSecond.at # 0
  /\ feedSecond.quality = feedFirst.quality
  /\ feedSecond.relevance = feedFirst.relevance
  /\ feedSecond.weights = feedFirst.weights

\* C18 as stated: two evaluations on the same item, published_at, quality,
\* relevances and weights give the same score and the same breakdown.
C18_SameInputsSameScore ==
  SameInputs =>
    /\ feedSecond.personalization_score = feedFirst.personalization_score
    /\ feedSecond.score_breakdown = feedFirst.score_breakdown

\* the band of an age: under 24 hours, under 7 days, older
AgeBand(e) == IF AgeAt(e) < 86400000 THEN 1 ELSE IF AgeAt(e) < 604800000 THEN 2 ELSE 3

\* C18 as amended: two evaluations on the same inputs give the same base_score
\* and topic_match; they give the same recency_boost and score when the clock
\* puts the item's age in the same band both times, and otherwise the scores
\* differ by the difference of the recency boosts.
C18_SameInputsAndAgeBand ==
  SameInputs =>
    /\ feedSecond.score_breakdown.base_score = feedFirst.score_breakdown.base_score
    /\ feedSecond.score_breakdown.topic_match = feedFirst.score_breakdown.topic_match
    /\ AgeBand(feedSecond) = AgeBand(feedFirst) =>
         /\ feedSecond.score_breakdown = feedFirst.score_breakdown
         /\ feedSecond.personalization_score = feedFirst.personalization_score
    /\ SameValue(Plus(feedFirst.score_breakdown.recency_boost, feedSecond.personalization_score),
                 Plus(feedSecond.score_breakdown.recency_boost, feedFirst.personalization_score))

\* the same item scored twice in one band with one score, the clock having
\* moved from one hour before publication to two hours after it
C18_Witness ==
  /\ SameInputs
  /\ feedFirst.at # feedSecond.at
  /\ AgeBand(feedFirst) = AgeBand(feedSecond)
  /\ feedFirst.score_breakdown.topic_match.num > 0
  /\ feedSecond.personalization_score = feedFirst.personalization_score

(***************************************************************************)
(* Properties of Hybrid Search                                             *)
(***************************************************************************)
\* the final score of x in tenths, from its zero-based places in K and in S
FinalScore(K, S, x) ==
  LET i == IndexOf(K, x)
      j == IndexOf(S, x)
  IN IF x \in IdsOf(K) /\ x \in IdsOf(S) THEN (Len(K) - i) * 10 + (Len(S) - j) * 15
     ELSE IF x \in IdsOf(K) THEN (Len(K) - i) * 10
     ELSE (Len(S) - j) * 8

\* C19: mergeResults(K, S, limit) is a list without duplicates of
\* min(limit, |K u S|) items of K u S in non-increasing order of final score,
\* no item left out outscoring one in it; for K = [A, B, C], S = [B, D] and
\* limit 10 it starts with B and ends with D.
C19_MergeResults ==
  mergeCall.called =>
    LET K == mergeCall.keywordResults
        S == mergeCall.semanticResults
        r == mergeCall.results
        all == IdsOf(K) \cup IdsOf(S)
    IN /\ \A i, j \in 1..Len(r) : i < j => r[i] # r[j]
       /\ IdsOf(r) \subseteq all
       /\ Len(r) = IF mergeCall.limit < Cardinality(all) THEN mergeCall.limit
                   ELSE Cardinality(all)
       /\ \A i, j \in 1..Len(r) : i < j => FinalScore(K, S, r[i]) >= FinalScore(K, S, r[j])
       /\ \A x \in all \ IdsOf(r), y \in IdsOf(r) : FinalScore(K, S, x) <= FinalScore(K, S, y)
       /\ (K = <<"A", "B", "C">> /\ S = <<"B", "D">> /\ mergeCall.limit = 10)
            => r[1] = "B" /\ r[Len(r)] = "D" /\ Len(r) = 4

\* the example of the claim has been merged
C19_Witness ==
  /\ mergeCall.called
  /\ mergeCall.keywordResults = <<"A", "B", "C">>
  /\ mergeCall.semanticResults = <<"B", "D">>
  /\ mergeCall.limit = 10
  /\ mergeCall.results = <<"B", "A", "C", "D">>

\* C20: when the semantic branch fails (no API key, failed embedding request,
\* RPC or fetch error, exception) the response is a success and its merged
\* results are the keyword results in keyword order, cut to the limit.
C20_KeywordOnlyOnFailure ==
  (searchResult.phase = "responded" /\ searchResult.semantic # "ok") =>
    /\ searchResult.status = 200
    /\ searchResult.results = Take(searchResult.keywordResults, searchResult.limit)

(***************************************************************************)
(* Properties of the batch sweeps                                          *)
(***************************************************************************)
Counted(r) == generated[r] + skipped[r] + failed[r]

\* the units before the current one are counted once each, in both sweeps
SweepCounts ==
  /\ \A r \in Runs :
       /\ rpc[r] \in {"check", "generate", "store"} =>
            /\ ridx[r] \in 1..Len(DigestUsers)
            /\ Counted(r) = ridx[r] - 1
       /\ rpc[r] = "finished" => Counted(r) = Len(DigestUsers)
  /\ dpc \in {"detect", "store"} =>
       /\ dtopic \in 1..Len(DetectTopics)
       /\ topicsProcessed + themesFailed = dtopic - 1
  /\ dpc = "done" =>
       /\ topicsProcessed + themesFailed = Len(DetectTopics)
       /\ \A t \in Topics : topicOutcome[t] # "pending"

\* the index of a sweep moves one unit at a time and never goes back
SweepOrder ==
  /\ \A r \in Runs :
       rpc[r] \in {"check", "generate", "store"} => ridx'[r] \in {ridx[r], ridx[r] + 1}
  /\ dpc \in {"detect", "store"} => dtopic' \in {dtopic, dtopic + 1}

\* C11: in sendDigests and in detectThemes a failure at one unit is caught
\* there and the sweep goes on: every unit is attempted once, in order, the
\* sweep ends, and at the end generated + skipped + failed is the number of
\* users and topicsProcessed + failed is the number of topics.
C11_SweepsComplete ==
  /\ []SweepCounts
  /\ [][SweepOrder]_vars
  /\ \A r \in Runs : (rpc[r] \in {"check", "generate", "store"}) ~> (rpc[r] = "finished")
  /\ (dpc \in {"detect", "store"}) ~> (dpc = "done")

\* a run of sendDigests ended with a failed user followed by a counted one, and
\* detectThemes ended with a failed topic followed by a processed one
C11_Witness ==
  /\ \E r \in Runs :
       /\ rpc[r] = "finished"
       /\ failed[r] = 1
       /\ lastOutcome[r] # "failed"
  /\ dpc = "done"
  /\ topicOutcome["t1"] \in {"detect failed", "store failed"}
  /\ topicOutcome["t2"] = "no themes"

(***************************************************************************)
(* Properties of cosineSimilarity                                          *)
(***************************************************************************)
IsZeroVector(v) == \A i \in 1..Len(v) : v[i] = 0

\* C21: cosineSimilarity returns 0 when the two vectors differ in length or
\* when one of them is the zero vector, two empty vectors included.
C21_ZeroOnDegenerateInput ==
  (/\ simCall.called
   /\ \/ Len(simCall.a) # Len(simCall.b)
      \/ IsZeroVector(simCall.a)
      \/ IsZeroVector(simCall.b))
    => simCall.result = [dot |-> 0, sq |-> 1]

\* a call with a zero vector and a non-zero vector of the same length
C21_Witness ==
  /\ simCall.called
  /\ simCall.a = <<0, 0>>
  /\ simCall.b = <<2, 0 - 1>>
  /\ simCall.result.dot = 0

(***************************************************************************)
(* Properties of clusterContentBySimilarity                                *)
(***************************************************************************)
\* the place of item x in the input of the call
PlaceOf(x) == CHOOSE i \in 1..Len(clustered.content) : clustered.content[i] = x

ClusterIndexes == 1..Len(clustered.clusters)
MembersOf(k) == IdsOf(clustered.clusters[k].contentIds)
SeedOf(k) == clustered.clusters[k].contentIds[1]

\* the items that started a cluster: the first member of a returned cluster, or
\* an item in no returned cluster (it absorbed nothing and was dropped)
IsSeed(x) ==
  \/ \E k \in ClusterIndexes : SeedOf(k) = x
  \/ \A k \in ClusterIndexes : x \notin MembersOf(k)

\* the members of the cluster that x started, x apart
AbsorbedBy(x) ==
  UNION {MembersOf(k) \ {x} : k \in {j \in ClusterIndexes : SeedOf(j) = x}}

\* m is later in the input than seed x and in no cluster of an earlier seed
UnassignedAt(x, m) ==
  /\ PlaceOf(m) > PlaceOf(x)
  /\ \A k \in ClusterIndexes :
       PlaceOf(SeedOf(k)) < PlaceOf(x) => m \notin MembersOf(k)

\* the cosine similarity of the embeddings of x and m is above 0.8
SimilarityAbove(x, m) ==
  LET sim == CosineSimilarity(embedding[x], embedding[m])
  IN sim.dot > 0 /\ 25 * sim.dot * sim.dot > 16 * sim.sq

\* the cosine similarity of the embeddings of x and m is 0.8 or more
SimilarityAtLeast(x, m) ==
  LET sim == CosineSimilarity(embedding[x], embedding[m])
  IN sim.dot >= 0 /\ 25 * sim.dot * sim.dot >= 16 * sim.sq

DistinctSources(contentIds) == {ContentSource(c) : c \in IdsOf(contentIds)}

\* the clusters of the call with content of three sources or more
CorroboratedClusters ==
  {k \in ClusterIndexes : Cardinality(DistinctSources(clustered.clusters[k].contentIds)) >= 3}

ReturnedClusters ==
  {k \in ClusterIndexes :
     \E i \in 1..Len(themeCandidates) :
       themeCandidates[i].contentIds = clustered.clusters[k].contentIds}

\* C23: detectThemesForTopic returns at most 5 candidates in non-increasing
\* order of distinct-source count, and they are the top ones: a cluster of 3
\* sources or more is left out only when 5 are returned, none of them with
\* fewer distinct sources than it.
C23_TopFiveBySources ==
  clustered.called =>
    /\ Len(themeCandidates) <= 5
    /\ \A i, j \in 1..Len(themeCandidates) :
         i < j => /\ themeCandidates[i].sourceCount >= themeCandidates[j].sourceCount
                  /\ themeCandidates[i].contentIds # themeCandidates[j].contentIds
    /\ \A i \in 1..Len(themeCandidates) :
         themeCandidates[i].sourceCount
           = Cardinality(DistinctSources(themeCandidates[i].contentIds))
    /\ ReturnedClusters \subseteq CorroboratedClusters
    /\ Cardinality(ReturnedClusters) = Len(themeCandidates)
    /\ \A k \in CorroboratedClusters \ ReturnedClusters :
         /\ Len(themeCandidates) = 5
         /\ \A i \in 1..Len(themeCandidates) :
              Cardinality(DistinctSources(clustered.clusters[k].contentIds))
                <= themeCandidates[i].sourceCount

\* six clusters have three sources or more, five are returned, and the first
\* has more sources than the last
C23_Witness ==
  /\ clustered.called
  /\ Cardinality(CorroboratedClusters) = 6
  /\ Len(themeCandidates) = 5
  /\ themeCandidates[1].sourceCount > themeCandidates[5].sourceCount

(***************************************************************************)
(* Properties of the digest pool                                           *)
(***************************************************************************)
\* C25: for every item the 24h window query fetches, the digest score
\* (quality_score or 50, plus 20) is the feed scorer's base_score +
\* recency_boost for the item at the same instant.
C25_DigestScoreIsFeedScore ==
  poolItem.fetched => poolItem.score = poolItem.base_score + poolItem.recency_boost

(***************************************************************************)
(* Properties of a batch unit that is run again                            *)
(***************************************************************************)
\* C26: running a unit again after its artifacts were persisted persists no
\* second Theme row for the same cluster of content ids of the topic and no
\* second Digest row for the user and the UTC date.
C26_RetryPersistsNothingTwice ==
  /\ \A a, b \in themes :
       (a.topic_id = b.topic_id /\ a.content_ids = b.content_ids) => a = b
  /\ \A d, f \in digests : (d.user_id = f.user_id /\ d.date = f.date) => d = f

(***************************************************************************)
(* Properties of the personalized feed and the topic hooks                 *)
(***************************************************************************)
\* C27: whether an item is filtered out of the feed of user U is decided by
\* U's own user_content row: the items are the ones U has not dismissed,
\* whatever other users did with them.
C27_FeedFiltersOwnDismissals ==
  feedResponse.called =>
    feedResponse.items = InteractedContents \ feedResponse.dismissed

\* C28: once an unfollow of topic t by user u has deleted the row and no
\* operation was started after it, no row (u, t) exists, whatever a weight
\* update in flight does.
C28_UnfollowedStaysDeleted ==
  (unfollowed.weight # NoRow /\ unfollowed.ops = ops) =>
    user_topics[unfollowed.user][unfollowed.topic] = NoRow

\* C29: useSetUserTopics is all-or-nothing: after an error the rows of the
\* user are the rows before the call, after a success they are the requested
\* topic ids.
C29_SetTopicsAllOrNothing ==
  /\ setOutcome.result = "error" =>
       user_topics[setOutcome.user] = setOutcome.before
  /\ setOutcome.result = "success" =>
       {t \in Topics : user_topics[setOutcome.user][t] # NoRow} = setOutcome.topicIds

(***************************************************************************)
(* Properties of the summarizeContent task                                 *)
(***************************************************************************)
\* C30: every content row with a raw_text eventually has an embedding.
C30_EventuallyEmbedded ==
  \A c \in {d \in SumContents : HasRawText(d)} : <>(embedding[c] # NullEmbedding)

====
